---- MODULE Spec2Model ----
(***************************************************************************)
(* Polling-and-alerting core of the printer monitor (server.js as shipped  *)
(* in scripts/rpm-post-install.sh, with storage.js).                       *)
(*                                                                         *)
(* Time is Date.now() counted in minutes.  Strings that the code inspects  *)
(* (supply names, the system description) are sequences of one-character   *)
(* strings, so that toLowerCase/includes/substring are computed.  A value  *)
(* that is null or the empty string in the code (both falsy) is <<>>.      *)
(***************************************************************************)
EXTENDS Integers, Sequences, FiniteSets, TLC

\* ------------------------------------------------------------------ bounds
\* Last minute of the clock in the alert-engine runs.
MaxTime == 2
\* Last minute of the clock in the outage runs.
MaxOutageTime == 3
MaxBounceTime == 4
\* Number of API requests (alerts and registry routes) in one run.
MaxOps == 1
\* Number of POST /api/scan requests in one run.
MaxScans == 2
\* Last host number of the scanned range (254 in the code: 26 batches; the
\* runs scan three batches, the last one short).
LastHost == 25
\* Number of recording passes in one run of the model.
MaxRecords == 5
\* Capacity of the history ring (1440 in the code).
maxSnapshots == 3

\* ------------------------------------------------------- program constants
\* Minutes in an hour; cooldownHours is held in sixtieths of an hour (it is
\* any JSON number), so that windows of a few minutes are covered.
MinutesPerHour == 60
DefaultCooldownHours == 4
DefaultOfflineMinutes == 5
NameLimit == 50
batchSize == 10
AlertHistoryLimit == 1000
MinutesPerDay == 1440
RetentionDays == 30

\* Addresses that are ever registered.
Addrs == {"10.0.0.1", "10.0.0.2"}

\* ------------------------------------------------------------ text helpers
Upper == <<"A","B","C","D","E","F","G","H","I","J","K","L","M",
           "N","O","P","Q","R","S","T","U","V","W","X","Y","Z">>
Lower == <<"a","b","c","d","e","f","g","h","i","j","k","l","m",
           "n","o","p","q","r","s","t","u","v","w","x","y","z">>

LowerChar(c) ==
  IF \E i \in DOMAIN Upper : Upper[i] = c
  THEN Lower[CHOOSE i \in DOMAIN Upper : Upper[i] = c]
  ELSE c

toLowerCase(s) == [i \in DOMAIN s |-> LowerChar(s[i])]

includes(s, kw) ==
  \E i \in 0..(Len(s) - Len(kw)) : SubSeq(s, i + 1, i + Len(kw)) = kw

substring(s, from, to) ==
  SubSeq(s, from + 1, IF to < Len(s) THEN to ELSE Len(s))

\* Math.round(a / b) for b > 0: the nearest integer, halves upwards.
Round(a, b) == (2 * a + b) \div (2 * b)

Toner == <<"T","o","n","e","r">>
Ink == <<"I","n","k">>
Drum == <<"D","r","u","m">>
kwToner == <<"t","o","n","e","r">>
kwInk == <<"i","n","k">>
kwDrum == <<"d","r","u","m">>
kwFuser == <<"f","u","s","e","r">>
kwCartridge == <<"c","a","r","t","r","i","d","g","e">>
kwWaste == <<"w","a","s","t","e">>
DescHP == <<"H","P">>

\* ------------------------------------------------------------------- state
VARIABLES
  now,               \* Date.now(), in minutes
  printers,          \* the registry Map, as a sequence in insertion order
  scanStatus,        \* { scanning, lastScan }
  config,            \* config.alerts
  alertCooldown,     \* Map cooldownKey -> time of last alert
  offlineTimestamps, \* Map ip -> time first seen offline
  alertHistory,      \* data/alert-history.json
  snapshots,         \* history.snapshots
  jobs,              \* poll loops in flight (periodic cycle, refresh, add)
  scans,             \* scanNetworkRange executions in flight
  fireLog,           \* what each evaluation saw and created, and the acknowledges
  lastRefresh,       \* when the 60 s auto-refresh interval last fired
  passTime,          \* when the 60 s recorder interval last fired (-1: never)
  asked,             \* history: the queries of the last poll answered OID by OID
  ops,               \* number of API requests served
  dispatched,        \* number of alerts handed to the email/webhook senders
  outbox,            \* what the senders did with each alert handed to them
  daily,             \* history.daily: day -> aggregates
  recorded,          \* every snapshot recordSnapshot has appended, in order
  responses          \* what each POST /api/scan answered, in order

vars == <<now, printers, scanStatus, config, alertCooldown, offlineTimestamps,
          alertHistory, snapshots, jobs, scans, fireLog, lastRefresh, ops,
          dispatched, outbox, daily, recorded, responses, passTime, asked>>

\* --------------------------------------------------------- registry (Map)
Keys(m) == [i \in DOMAIN m |-> m[i].ip]
Has(m, ip) == \E i \in DOMAIN m : m[i].ip = ip
Get(m, ip) == m[CHOOSE i \in DOMAIN m : m[i].ip = ip]
MapSet(m, ip, v) ==
  IF Has(m, ip)
  THEN [i \in DOMAIN m |-> IF m[i].ip = ip THEN v ELSE m[i]]
  ELSE Append(m, v)
MapDelete(m, ip) == SelectSeq(m, LAMBDA p : p.ip # ip)

\* ------------------------------------------------------------ queryPrinter
Digits == {"0","1","2","3","4","5","6","7","8","9"}

\* white space that trim() strips, of the characters the model writes
WhiteSpace == {" ", "\t"}

RECURSIVE trim(_)
trim(s) ==
  IF s = <<>> THEN s
  ELSE IF Head(s) \in WhiteSpace THEN trim(Tail(s))
  ELSE IF s[Len(s)] \in WhiteSpace THEN trim(SubSeq(s, 1, Len(s) - 1))
  ELSE s

\* parseInt(s), radix 10: white space, an optional sign, then the leading
\* digits; <<n>> for the number n, <<>> for NaN.
DigitSeq == <<"0","1","2","3","4","5","6","7","8","9">>
DigitVal(c) == (CHOOSE i \in DOMAIN DigitSeq : DigitSeq[i] = c) - 1

RECURSIVE LeadingDigits(_, _, _)
LeadingDigits(s, i, acc) ==
  IF i > Len(s) \/ s[i] \notin Digits THEN acc
  ELSE LeadingDigits(s, i + 1, 10 * acc + DigitVal(s[i]))

parseInt(s) ==
  LET t == trim(s)
      signed == t # <<>> /\ t[1] \in {"-", "+"}
      body == IF signed THEN Tail(t) ELSE t
  IN  IF body = <<>> \/ body[1] \notin Digits THEN <<>>
      ELSE IF signed /\ t[1] = "-" THEN << 0 - LeadingDigits(body, 1, 0) >>
      ELSE << LeadingDigits(body, 1, 0) >>

\* /^\d+$/.test(s)
AllDigits(s) == s # <<>> /\ \A i \in DOMAIN s : s[i] \in Digits

\* The type chain of the supply loop; "other" rows are not stored.
SupplyType(nameLower) ==
  IF includes(nameLower, kwToner) \/ includes(nameLower, kwInk)
     \/ includes(nameLower, kwCartridge)
  THEN (IF includes(nameLower, kwWaste) THEN "waste" ELSE "toner")
  ELSE IF includes(nameLower, kwDrum) THEN "drum"
  ELSE IF includes(nameLower, kwFuser)
          \/ includes(nameLower, <<"f","i","x","i","n","g">>) THEN "fuser"
  ELSE IF includes(nameLower, <<"b","e","l","t">>)
          \/ includes(nameLower, <<"t","r","a","n","s","f","e","r">>) THEN "transfer"
  ELSE IF includes(nameLower, <<"m","a","i","n","t","e","n","a","n","c","e">>)
          \/ includes(nameLower, <<"k","i","t">>) THEN "maintenance"
  ELSE "other"

\* One row of the zipped supply walks: <<>> when dropped, else <<supply>>.
SupplyRow(name, maxVal, currentVal) ==
  LET nameLower == trim(toLowerCase(name))
      type == SupplyType(nameLower)
  IN  IF maxVal > 0 /\ name # <<>>
         /\ ~(AllDigits(trim(name)) \/ Len(trim(name)) < 3)
         /\ type # "other"
      THEN << [name |-> trim(name), current |-> currentVal,
               max |-> maxVal, type |-> type] >>
      ELSE <<>>

\* Variant: a row of an unrecognised type is stored too.
RawSupplyRowAnyType(name, rawMax, rawCurrent) ==
  LET maxVal == parseInt(rawMax)
      currentVal == parseInt(rawCurrent)
      type == SupplyType(trim(toLowerCase(name)))
  IN  IF maxVal # <<>> /\ currentVal # <<>> /\ maxVal[1] > 0 /\ name # <<>>
         /\ ~(AllDigits(trim(name)) \/ Len(trim(name)) < 3)
      THEN << [name |-> trim(name), current |-> currentVal[1],
               max |-> maxVal[1], type |-> type] >>
      ELSE <<>>

\* The same row with the walk's strings: parseInt first, NaN drops the row.
RawSupplyRow(name, rawMax, rawCurrent) ==
  LET maxVal == parseInt(rawMax)
      currentVal == parseInt(rawCurrent)
  IN  IF maxVal # <<>> /\ currentVal # <<>>
      THEN SupplyRow(name, maxVal[1], currentVal[1])
      ELSE <<>>

RECURSIVE RawSupplyLoop(_, _, _, _)
RawSupplyLoop(names, maxs, currents, i) ==
  IF i > Len(names) THEN <<>>
  ELSE (IF i <= Len(maxs) /\ i <= Len(currents)
        THEN RawSupplyRow(names[i], maxs[i], currents[i])
        ELSE <<>>)
       \o RawSupplyLoop(names, maxs, currents, i + 1)

RawSupplies(names, maxs, currents) ==
  IF Len(names) > 0 /\ Len(maxs) > 0 /\ Len(currents) > 0
  THEN RawSupplyLoop(names, maxs, currents, 1)
  ELSE <<>>

RECURSIVE SupplyLoop(_, _, _, _)
SupplyLoop(names, maxs, currents, i) ==
  IF i > Len(names) THEN <<>>
  ELSE (IF i <= Len(maxs) /\ i <= Len(currents)
        THEN SupplyRow(names[i], maxs[i], currents[i])
        ELSE <<>>)
       \o SupplyLoop(names, maxs, currents, i + 1)

ProcessSupplies(names, maxs, currents) ==
  IF Len(names) > 0 /\ Len(maxs) > 0 /\ Len(currents) > 0
  THEN SupplyLoop(names, maxs, currents, 1)
  ELSE <<>>

\* ----- trays
\* TRAY_STATUS[statusCode] || 'unknown' (NaN, <<>>, has no entry)
TrayStatus(code) ==
  IF code = <<>> THEN "unknown"
  ELSE CASE code[1] = 0 -> "unknown"
         [] code[1] = 1 -> "available"
         [] code[1] = 2 -> "unavailable"
         [] code[1] = 3 -> "empty"
         [] code[1] = 4 -> "paper-jam"
         [] code[1] = 5 -> "tray-missing"
         [] OTHER -> "unknown"

\* /^\d+(\.\d+)?$/.test(s)
IsDecimal(s) ==
  \/ AllDigits(s)
  \/ \E k \in 2..(Len(s) - 1) :
        /\ s[k] = "."
        /\ AllDigits(SubSeq(s, 1, k - 1))
        /\ AllDigits(SubSeq(s, k + 1, Len(s)))

\* /^-?\d+$/.test(s)
IsSignedDigits(s) ==
  \/ AllDigits(s)
  \/ (s # <<>> /\ s[1] = "-" /\ AllDigits(Tail(s)))

\* /[\x00-\x1F\x7F-\x9F]/, of the characters the model writes
ControlChars == {"\t"}
HasControlChar(s) == \E i \in DOMAIN s : s[i] \in ControlChars

trayKeywords ==
  { <<"t","r","a","y">>, <<"d","r","a","w","e","r">>,
    <<"c","a","s","s","e","t","t","e">>, <<"b","y","p","a","s","s">>,
    <<"m","a","n","u","a","l"," ","f","e","e","d">>,
    <<"m","u","l","t","i","-","p","u","r","p","o","s","e">>,
    <<"m","u","l","t","i","p","u","r","p","o","s","e">>, <<"m","p","t">> }

\* Variant: a row counts as a tray without a keyword.
isTrayOrAnything(nameLower) == TRUE

isTray(nameLower) == \E k \in trayKeywords : includes(nameLower, k)

\* An element of a walk, or dflt where the walk is shorter.
At(walk, i, dflt) == IF i <= Len(walk) THEN walk[i] ELSE dflt

\* The tray the loop body pushes for row i; absent numbers are -1.
TrayOf(name, rawMax, rawCurrent, rawStatus, mediaName) ==
  LET maxCapacity == parseInt(rawMax)
      currentLevel == parseInt(rawCurrent)
      level == IF currentLevel = <<>> THEN -2 ELSE currentLevel[1]
  IN  [name |-> trim(name),
       maxCapacity |-> IF maxCapacity # <<>> /\ maxCapacity[1] > 0
                       THEN maxCapacity[1] ELSE -1,
       currentLevel |-> IF level > 0 THEN level ELSE -1,
       status |-> TrayStatus(parseInt(rawStatus)),
       mediaName |-> IF mediaName # <<>> /\ ~IsSignedDigits(mediaName)
                     THEN mediaName ELSE <<>>,
       capacityStatus |-> IF level > 0 THEN "null"
                          ELSE IF level = -1 \/ level = -3 THEN "has-paper"
                          ELSE IF level = 0 THEN "empty"
                          ELSE "null"]

\* Variant: a name already pushed is pushed again.
TrayKeptAgain(trays, name) ==
  /\ name # <<>> /\ Len(trim(name)) >= 3 /\ ~IsDecimal(trim(name))
  /\ ~HasControlChar(name)
  /\ isTray(trim(toLowerCase(name)))

\* The filters of the loop body, in order; trays is what was pushed so far.
TrayKept(trays, name) ==
  /\ name # <<>> /\ Len(trim(name)) >= 3 /\ ~IsDecimal(trim(name))
  /\ ~HasControlChar(name)
  /\ isTray(trim(toLowerCase(name)))
  /\ ~\E k \in DOMAIN trays :
        toLowerCase(trays[k].name) = toLowerCase(trim(name))

RECURSIVE TrayLoop(_, _, _, _, _, _, _)
TrayLoop(trays, names, maxs, currents, statuses, medias, i) ==
  IF i > Len(names) THEN trays
  ELSE TrayLoop(
         IF TrayKept(trays, names[i])
         THEN Append(trays, TrayOf(names[i], At(maxs, i, <<"-","1">>),
                                   At(currents, i, <<"-","1">>),
                                   At(statuses, i, <<"0">>), At(medias, i, <<>>)))
         ELSE trays,
         names, maxs, currents, statuses, medias, i + 1)

ProcessTrays(names, maxs, currents, statuses, medias) ==
  TrayLoop(<<>>, names, maxs, currents, statuses, medias, 1)

\* DEVICE_STATUS[statusCode] || 'unknown'
DeviceStatus(code) ==
  CASE code = 1 -> "other"
    [] code = 2 -> "unknown"
    [] code = 3 -> "idle"
    [] code = 4 -> "printing"
    [] code = 5 -> "warmup"
    [] code = 6 -> "waiting"
    [] OTHER -> "unknown"

NoNetwork == [sysName |-> <<>>, sysLocation |-> <<>>, sysContact |-> <<>>]

\* Variant: the blank record carries a note of when the poll was made.
printerDataNoted(ip, t) ==
  [ip |-> ip, name |-> <<>>, model |-> <<>>, serial |-> <<>>,
   status |-> "unknown", totalPages |-> 0, supplies |-> <<>>, trays |-> <<>>,
   errors |-> << [severity |-> "info", description |-> <<>>, timestamp |-> t] >>,
   network |-> NoNetwork, lastUpdate |-> t, online |-> FALSE]

\* The record queryPrinter starts from.
printerData(ip, t) ==
  [ip |-> ip, name |-> <<>>, model |-> <<>>, serial |-> <<>>,
   status |-> "unknown", totalPages |-> 0, supplies |-> <<>>, trays |-> <<>>,
   errors |-> <<>>, network |-> NoNetwork, lastUpdate |-> t, online |-> FALSE]

\* What the device answers during one poll.  kind "unreachable": the
\* description GET resolves null; "throws": a query after the description
\* raises inside the try block; "ok": the answers in the other fields.
Unreachable == [kind |-> "unreachable"]
Throws == [kind |-> "throws", desc |-> DescHP]
Answer(pages, toner, ink) ==
  [kind |-> "ok", desc |-> DescHP, serial |-> <<"S","1">>, status |-> 3,
   pages |-> pages,
   supplyNames |-> <<Toner, Ink, Drum>>,
   supplyMax |-> <<100, 100, 100, 100>>,
   supplyCurrent |-> <<toner, ink, 5>>,
   trays |-> << [name |-> <<"T","r","a","y">>, capacityStatus |-> "has-paper"] >>,
   errors |-> << [severity |-> "warning", description |-> <<"l","o","w">>] >>]

\* The answers as the walks give them: strings that are yet to be parsed.
RawAnswer(supplyNames, supplyMax, supplyCurrent,
          trayNames, trayMax, trayCurrent, trayStatus, trayMedia) ==
  [kind |-> "raw", desc |-> DescHP, serial |-> <<"S","1">>, status |-> 3,
   pages |-> 100,
   supplyNames |-> supplyNames, supplyMax |-> supplyMax,
   supplyCurrent |-> supplyCurrent,
   trayNames |-> trayNames, trayMax |-> trayMax, trayCurrent |-> trayCurrent,
   trayStatus |-> trayStatus, trayMedia |-> trayMedia,
   errors |-> <<>>]

\* ---- the GETs of a poll, one by one
\* snmpGet resolves null when the device gives no value for the OID; a
\* value is a string, which may be empty.
Null == <<"null">>
\* The session could not be made: the query raises.
Raised == <<"raised">>
\* if (v)
Truthy(v) == v # Null /\ v # <<>>
\* isNaN(v) of a string value: Number(v) is NaN (decimal forms only)
isNaN(v) ==
  LET u == trim(v)
  IN  ~(\/ u = <<>>
        \/ IsDecimal(u)
        \/ (u[1] \in {"-", "+"} /\ IsDecimal(Tail(u))))

\* PRINTER_OIDS, by the names of its keys, in the order queryPrinter tries
\* them for a field.
serialOids == <<"serial", "serialAlt1", "serialAlt2">>
statusOids == <<"deviceStatus", "statusAlt1">>
pagesOids ==
  <<"totalPages", "totalPagesAlt1", "totalPagesAlt2", "totalPagesAlt3",
    "totalPagesAlt4", "totalPagesAlt5", "totalPagesAlt6">>
networkOids == <<"sysName", "sysLocation", "sysContact">>
walkOids ==
  <<"supplyDesc", "supplyMax", "supplyCurrent", "inputTrayName",
    "inputTrayCapacityMax", "inputTrayCapacityCurrent", "inputTrayStatus",
    "inputTrayMediaName", "alertSeverity", "alertDescription">>

\* Variant: the poll goes on whatever the description GET gave.
ReachableAlways(desc) == TRUE

\* if (desc)
Reachable(desc) == Truthy(desc)

\* The test that sends queryPrinter to the next OID of a field:
\* `!serial`, `!status`, `!pages || isNaN(pages)`.
TriesNext(field, v) ==
  IF field = "pages" THEN ~Truthy(v) \/ isNaN(v) ELSE ~Truthy(v)

\* The GETs made for a field from its i-th OID on, with their answers.
RECURSIVE TryOids(_, _, _, _)
TryOids(field, oids, get, i) ==
  LET e == [oid |-> oids[i], value |-> get[oids[i]]]
  IN  IF i < Len(oids) /\ TriesNext(field, e.value)
      THEN <<e>> \o TryOids(field, oids, get, i + 1)
      ELSE <<e>>

Last(log) == log[Len(log)]

\* queryPrinter on a device that answers resp.get[oid] to a GET and nothing
\* to a walk: the snapshot and the queries made, in order.
queryLog(ip, resp, t) ==
  LET d == printerData(ip, t)
      desc == resp.get["description"]
      first == <<[oid |-> "description", value |-> desc]>>
      serials == TryOids("serial", serialOids, resp.get, 1)
      statuses == TryOids("status", statusOids, resp.get, 1)
      pages == TryOids("pages", pagesOids, resp.get, 1)
      network == [i \in DOMAIN networkOids |->
                    [oid |-> networkOids[i], value |-> resp.get[networkOids[i]]]]
      serial == Last(serials).value
      status == Last(statuses).value
      count == Last(pages).value
      orNull(v) == IF Truthy(v) THEN v ELSE <<>>
      got == [d EXCEPT
                !.online = TRUE,
                !.name = substring(desc, 0, NameLimit),
                !.model = substring(desc, 0, NameLimit),
                !.serial = orNull(serial),
                !.status = IF Truthy(status) /\ ~isNaN(status)
                                /\ parseInt(status) # <<>>
                           THEN DeviceStatus(parseInt(status)[1])
                           ELSE "unknown",
                !.totalPages = IF Truthy(count) /\ ~isNaN(count)
                               THEN (IF parseInt(count) = <<>> THEN -2
                                     ELSE parseInt(count)[1])
                               ELSE 0,
                !.network = [sysName |-> orNull(network[1].value),
                             sysLocation |-> orNull(network[2].value),
                             sysContact |-> orNull(network[3].value)]]
      gets == first \o serials \o statuses \o pages \o network
  IN  IF ~Reachable(desc)
      THEN [data |-> [d EXCEPT !.status = "offline"], asked |-> first]
      ELSE IF resp.raises
      THEN [data |-> [got EXCEPT !.status = "offline"],
            asked |-> Append(gets, [oid |-> walkOids[1], value |-> Raised])]
      ELSE [data |-> got,
            asked |-> gets \o [i \in DOMAIN walkOids |->
                                 [oid |-> walkOids[i], value |-> <<>>]]]

queryPrinter(ip, resp, t) ==
  LET d == printerData(ip, t)
  IN  IF resp.kind = "probe"
      THEN queryLog(ip, resp, t).data
      ELSE IF resp.kind = "unreachable"
      THEN [d EXCEPT !.status = "offline"]
      ELSE IF resp.kind = "throws"
      THEN [d EXCEPT !.online = TRUE,
                     !.name = substring(resp.desc, 0, NameLimit),
                     !.model = substring(resp.desc, 0, NameLimit),
                     !.status = "offline"]
      ELSE [d EXCEPT !.online = TRUE,
                     !.name = substring(resp.desc, 0, NameLimit),
                     !.model = substring(resp.desc, 0, NameLimit),
                     !.serial = resp.serial,
                     !.status = DeviceStatus(resp.status),
                     !.totalPages = resp.pages,
                     !.supplies = IF resp.kind = "raw"
                                  THEN RawSupplies(resp.supplyNames, resp.supplyMax,
                                                   resp.supplyCurrent)
                                  ELSE ProcessSupplies(resp.supplyNames, resp.supplyMax,
                                                       resp.supplyCurrent),
                     !.trays = IF resp.kind = "raw"
                               THEN ProcessTrays(resp.trayNames, resp.trayMax,
                                                 resp.trayCurrent, resp.trayStatus,
                                                 resp.trayMedia)
                               ELSE resp.trays,
                     !.errors = [i \in DOMAIN resp.errors |->
                                   [severity |-> resp.errors[i].severity,
                                    description |-> resp.errors[i].description,
                                    timestamp |-> t]]]

\* ------------------------------------------------------------ alert system
\* Variant: one key per printer and type, the supply name left out.
CooldownKeyPerType(type, ip, supplyName) == <<ip, type>>

\* `${ip}-${type}-${supplyName}`, or `${ip}-${type}` when supplyName is
\* falsy.  Addresses hold no "-" and the four types are fixed, so the string
\* determines its parts: the key is kept as the tuple of the parts.
CooldownKey(type, ip, supplyName) ==
  IF supplyName # <<>> THEN <<ip, type, supplyName>> ELSE <<ip, type>>

\* (config.alerts.cooldownHours || 4) * 60 * 60 * 1000, in minutes;
\* cfg.cooldownHours holds 60 * cooldownHours
cooldownMs(cfg) ==
  IF cfg.cooldownHours = 0 THEN DefaultCooldownHours * MinutesPerHour
  ELSE cfg.cooldownHours

\* Variant: no threshold, a device is reported the moment it is seen offline.
offlineThresholdNone(cfg) == 0

\* (config.alerts.offlineMinutes || 5) * 60 * 1000, in minutes
offlineThresholdMs(cfg) ==
  IF cfg.offlineMinutes = 0 THEN DefaultOfflineMinutes ELSE cfg.offlineMinutes

\* Variant: the window comparison turned around.
isInCooldownTurned(cd, key, t, cfg) ==
  IF key \notin DOMAIN cd THEN FALSE
  ELSE (t - cd[key]) > cooldownMs(cfg)

isInCooldown(cd, key, t, cfg) ==
  IF key \notin DOMAIN cd THEN FALSE
  ELSE (t - cd[key]) < cooldownMs(cfg)

setCooldown(cd, key, t) ==
  [k \in DOMAIN cd \cup {key} |-> IF k = key THEN t ELSE cd[k]]

\* Variant: acknowledge leaves the cooldown entry in place.
clearCooldownKept(cd, key) == cd

clearCooldown(cd, key) == [k \in DOMAIN cd \ {key} |-> cd[k]]

\* Variant: the first 1000 alerts are kept, alerts.slice(0, 1000).
saveAlertHistoryOldestKept(alerts) ==
  IF Len(alerts) > AlertHistoryLimit
  THEN SubSeq(alerts, 1, AlertHistoryLimit)
  ELSE alerts

\* storage.saveAlertHistory: alerts.slice(-1000)
saveAlertHistory(alerts) ==
  IF Len(alerts) > AlertHistoryLimit
  THEN SubSeq(alerts, Len(alerts) - AlertHistoryLimit + 1, Len(alerts))
  ELSE alerts

\* storage.addAlert: the id is Date.now().toString()
addAlert(hist, alert, t) ==
  saveAlertHistory(Append(hist,
    [id |-> t, type |-> alert.type, printerIp |-> alert.printerIp,
     supplyName |-> alert.supplyName, details |-> alert.details,
     timestamp |-> t, acknowledged |-> FALSE]))

\* What storage.addAlert returns: alerts[alerts.length - 1] of the list it
\* pushed to (the list before saveAlertHistory sliced a copy of it).
addAlertReturned(hist, alert, t) ==
  LET alerts == Append(hist,
        [id |-> t, type |-> alert.type, printerIp |-> alert.printerIp,
         supplyName |-> alert.supplyName, details |-> alert.details,
         timestamp |-> t, acknowledged |-> FALSE])
  IN  alerts[Len(alerts)]

\* details objects, one shape for the four alert types (-1, <<>>: not set)
NoDetails == [percentage |-> -1, lastSeen |-> -1, downtime |-> <<>>]

\* the downtime text: hours above 3600000 ms, minutes otherwise
DowntimeStr(downtime) ==
  IF downtime > MinutesPerHour
  THEN <<Round(downtime, MinutesPerHour), "hours">>
  ELSE <<Round(downtime, 1), "minutes">>

\* ----- notifications
\* new Date().getDay() and the HH:MM of toTimeString(), as minutes of the
\* day; minute 0 of the clock is a Thursday 00:00 (1970-01-01).
getDay(t) == (4 + t \div MinutesPerDay) % 7
currentTime(t) == t % MinutesPerDay

isWithinNotificationSchedule(t, cfg) ==
  LET isWithinTime == currentTime(t) >= cfg.notifyTime
                      /\ currentTime(t) <= cfg.notifyEndTime
  IN  IF cfg.notifySchedule = "always" THEN TRUE
      ELSE IF cfg.notifySchedule = "business-hours"
      THEN getDay(t) >= 1 /\ getDay(t) <= 5 /\ isWithinTime
      ELSE IF cfg.notifySchedule = "scheduled"
      THEN getDay(t) \in cfg.notifyDays /\ isWithinTime
      ELSE TRUE

\* sendEmailNotification up to its first await: what became of the mail.
\* cfg.email is "off" (not enabled), "no-host" (enabled, SMTP host not
\* set) or "on".
sendEmailNotification(alertType, t, cfg) ==
  IF cfg.email = "off" THEN "disabled"
  ELSE IF alertType # "report" /\ ~isWithinNotificationSchedule(t, cfg)
  THEN "skipped"
  ELSE IF cfg.email = "no-host" THEN "unconfigured"
  ELSE "sending"

\* sendWebhookNotification up to its first await: cfg.webhooks counts the
\* webhooks that are enabled and have a url.
sendWebhookNotification(alertType, t, cfg) ==
  IF cfg.webhooks > 0 THEN "posting" ELSE "none"

\* Variant: the senders are started before the alert is saved.
triggerAlertSendFirst(st, type, printerIp, supplyName, details, t, cfg) ==
  LET cooldownKey == CooldownKey(type, printerIp, supplyName)
      saved == addAlert(st.hist,
                        [type |-> type, printerIp |-> printerIp,
                         supplyName |-> supplyName, details |-> details], t)
  IN  IF isInCooldown(st.cd, cooldownKey, t, cfg) THEN st
      ELSE [st EXCEPT
              !.hist = saved,
              !.cd = setCooldown(st.cd, cooldownKey, t),
              !.sent = IF cfg.enabled THEN st.sent + 1 ELSE st.sent,
              !.out = IF cfg.enabled
                      THEN Append(st.out,
                             [key |-> cooldownKey, t |-> t,
                              stored |-> Len(st.hist) + 1,
                              saved |-> FALSE,
                              email |-> sendEmailNotification(type, t, cfg),
                              webhook |-> sendWebhookNotification(type, t, cfg)])
                      ELSE st.out,
              !.log = Append(st.log, [ev |-> "fire", key |-> cooldownKey,
                                      t |-> t, details |-> details])]

\* The alert engine's state while one evaluation runs:
\* cd alertCooldown, off offlineTimestamps, hist the stored history,
\* log the creations so far, sent the alerts handed to the senders, out
\* what the senders did: for each alert its key and time, its place in the
\* history, whether it was saved when the senders were called, and the
\* state of the mail and of the webhook posts.
triggerAlert(st, type, printerIp, supplyName, details, t, cfg) ==
  LET cooldownKey == CooldownKey(type, printerIp, supplyName)
      saved == addAlert(st.hist,
                        [type |-> type, printerIp |-> printerIp,
                         supplyName |-> supplyName, details |-> details], t)
  IN  IF isInCooldown(st.cd, cooldownKey, t, cfg) THEN st
      ELSE [st EXCEPT
              !.hist = saved,
              !.cd = setCooldown(st.cd, cooldownKey, t),
              !.sent = IF cfg.enabled THEN st.sent + 1 ELSE st.sent,
              !.out = IF cfg.enabled
                      THEN Append(st.out,
                             [key |-> cooldownKey, t |-> t,
                              stored |-> Len(saved),
                              saved |-> Len(saved) > Len(st.hist),
                              email |-> sendEmailNotification(type, t, cfg),
                              webhook |-> sendWebhookNotification(type, t, cfg)])
                      ELSE st.out,
              !.log = Append(st.log, [ev |-> "fire", key |-> cooldownKey,
                                      t |-> t, details |-> details])]

\* Variant: every toner or ink supply, a toner drum or fuser too.
SupplyConsideredDrumToo(name) ==
  LET supplyName == toLowerCase(name)
  IN  includes(supplyName, kwToner) \/ includes(supplyName, kwInk)

\* Only toner/ink supplies, never drum or fuser.
SupplyConsidered(name) ==
  LET supplyName == toLowerCase(name)
  IN  /\ (includes(supplyName, kwToner) \/ includes(supplyName, kwInk))
      /\ ~(includes(supplyName, kwDrum) \/ includes(supplyName, kwFuser))

Percentage(supply) ==
  IF supply.max > 0 THEN Round(supply.current * 100, supply.max) ELSE 100

checkSupply(st, printer, supply, t, cfg) ==
  LET percentage == Percentage(supply)
      det == [NoDetails EXCEPT !.percentage = percentage]
  IN  IF ~SupplyConsidered(supply.name) THEN st
      ELSE IF percentage >= 0 /\ percentage < cfg.criticalSupplyThreshold
      THEN triggerAlert(st, "critical-supply", printer.ip, supply.name, det, t, cfg)
      ELSE IF percentage >= cfg.criticalSupplyThreshold
              /\ percentage < cfg.lowSupplyThreshold
      THEN triggerAlert(st, "low-supply", printer.ip, supply.name, det, t, cfg)
      ELSE st

RECURSIVE checkSupplies(_, _, _, _, _)
checkSupplies(st, printer, i, t, cfg) ==
  IF i > Len(printer.supplies) THEN st
  ELSE checkSupplies(checkSupply(st, printer, printer.supplies[i], t, cfg),
                     printer, i + 1, t, cfg)

IsOffline(printer) == ~printer.online \/ printer.status = "offline"

\* Variant: the timer is restarted at every evaluation that sees the
\* printer offline.
checkOfflineRestarted(st, printer, t, cfg) ==
  LET off1 == [a \in DOMAIN st.off \cup {printer.ip} |->
                 IF a = printer.ip THEN t ELSE st.off[a]]
      st1 == [st EXCEPT !.off = off1]
      offlineDuration == t - off1[printer.ip]
  IN  IF offlineDuration >= offlineThresholdMs(cfg)
      THEN triggerAlert(st1, "offline", printer.ip, <<>>,
                        [NoDetails EXCEPT !.lastSeen = printer.lastUpdate], t, cfg)
      ELSE st1

\* The offline branch of checkAlerts for one printer.
checkOffline(st, printer, t, cfg) ==
  LET off1 == IF printer.ip \in DOMAIN st.off THEN st.off
              ELSE [a \in DOMAIN st.off \cup {printer.ip} |->
                      IF a = printer.ip THEN t ELSE st.off[a]]
      st1 == [st EXCEPT !.off = off1]
      offlineDuration == t - off1[printer.ip]
  IN  IF offlineDuration >= offlineThresholdMs(cfg)
      THEN triggerAlert(st1, "offline", printer.ip, <<>>,
                        [NoDetails EXCEPT !.lastSeen = printer.lastUpdate], t, cfg)
      ELSE st1

\* The recovery branch of checkAlerts for one printer.
checkRecovery(st, printer, t, cfg) ==
  IF printer.ip \in DOMAIN st.off
  THEN LET downtime == t - st.off[printer.ip]
           st1 == triggerAlert(st, "back-online", printer.ip, <<>>,
                    [NoDetails EXCEPT !.downtime = DowntimeStr(downtime)], t, cfg)
       IN  [st1 EXCEPT !.off = [a \in DOMAIN st.off \ {printer.ip} |-> st.off[a]]]
  ELSE st

\* The log also notes what the evaluation saw of the printer.
Seen(st, printer, t) ==
  [st EXCEPT !.log = Append(st.log,
     [ev |-> "seen",
      key |-> <<printer.ip, IF IsOffline(printer) THEN "down" ELSE "up">>,
      t |-> t, details |-> NoDetails])]

checkPrinter(st, printer, t, cfg) ==
  IF IsOffline(printer)
  THEN checkOffline(Seen(st, printer, t), printer, t, cfg)
  ELSE checkSupplies(checkRecovery(Seen(st, printer, t), printer, t, cfg),
                     printer, 1, t, cfg)

RECURSIVE checkPrinters(_, _, _, _, _)
checkPrinters(st, printerList, i, t, cfg) ==
  IF i > Len(printerList) THEN st
  ELSE checkPrinters(checkPrinter(st, printerList[i], t, cfg),
                     printerList, i + 1, t, cfg)

checkAlerts(st, printerList, t, cfg) ==
  IF ~cfg.enabled THEN st ELSE checkPrinters(st, printerList, 1, t, cfg)

\* The engine state read from, and written back to, the variables.
EngineState ==
  [cd |-> alertCooldown, off |-> offlineTimestamps, hist |-> alertHistory,
   log |-> fireLog, sent |-> dispatched, out |-> outbox]

\* ------------------------------------------------- alert history (storage)
\* Index of the first stored alert with this id (alerts.find / findIndex),
\* 0 when there is none.
FindAlert(hist, id) ==
  IF \E i \in DOMAIN hist : hist[i].id = id
  THEN CHOOSE i \in DOMAIN hist :
         hist[i].id = id /\ \A k \in 1..(i - 1) : hist[k].id # id
  ELSE 0

\* storage.acknowledgeAlert: the stored list afterwards
acknowledgeAlert(hist, id, t) ==
  LET i == FindAlert(hist, id)
  IN  IF i = 0 THEN hist
      ELSE saveAlertHistory([hist EXCEPT ![i].acknowledged = TRUE])

\* storage.deleteAlert: the stored list afterwards
deleteAlert(hist, id) ==
  LET i == FindAlert(hist, id)
  IN  IF i = 0 THEN hist
      ELSE saveAlertHistory(SubSeq(hist, 1, i - 1) \o SubSeq(hist, i + 1, Len(hist)))

\* POST /api/alerts/acknowledge-all: forEach over the list as loaded
RECURSIVE acknowledgeAllLoop(_, _, _, _)
acknowledgeAllLoop(hist, alerts, i, t) ==
  IF i > Len(alerts) THEN hist
  ELSE acknowledgeAllLoop(
         IF ~alerts[i].acknowledged THEN acknowledgeAlert(hist, alerts[i].id, t)
         ELSE hist,
         alerts, i + 1, t)

\* ------------------------------------------------------------------- Init
\* the defaults of isWithinNotificationSchedule: 08:00, 18:00, Monday-Friday
MorningStart == 8 * MinutesPerHour
EveningEnd == 18 * MinutesPerHour
WorkDays == {1, 2, 3, 4, 5}

AlertConfigs ==
  [enabled : {TRUE}, lowSupplyThreshold : {20}, criticalSupplyThreshold : {10},
   offlineMinutes : {1}, cooldownHours : {1, 2},
   email : {"off"}, webhooks : {0}, notifySchedule : {"always"},
   notifyTime : {MorningStart}, notifyEndTime : {EveningEnd},
   notifyDays : {WorkDays}]

\* What a poll may find: toner falling 25% -> 15% -> 8%, the ink low with it.
PollAnswers ==
  {Unreachable, Answer(100, 25, 50), Answer(100, 15, 15), Answer(100, 8, 15)}

\* In the alert-engine runs the second printer stays switched off.
AlertAnswers(ip) == IF ip = "10.0.0.2" THEN {Unreachable} ELSE PollAnswers

\* A window longer than the offline threshold.
OutageConfigs ==
  [enabled : {TRUE}, lowSupplyThreshold : {20}, criticalSupplyThreshold : {10},
   offlineMinutes : {1}, cooldownHours : {2, 3},
   email : {"off"}, webhooks : {0}, notifySchedule : {"always"},
   notifyTime : {MorningStart}, notifyEndTime : {EveningEnd},
   notifyDays : {WorkDays}]

\* Alerts switched off: checkAlerts returns at once.
QuietConfigs ==
  [enabled : {FALSE}, lowSupplyThreshold : {20}, criticalSupplyThreshold : {10},
   offlineMinutes : {1}, cooldownHours : {1},
   email : {"off"}, webhooks : {0}, notifySchedule : {"always"},
   notifyTime : {MorningStart}, notifyEndTime : {EveningEnd},
   notifyDays : {WorkDays}]

\* data/printers.json as a previous run left it: every address registered.
AddrList == <<"10.0.0.1", "10.0.0.2">>
savedPrinters ==
  << queryPrinter(AddrList[1], Answer(100, 25, 50), 0),
     queryPrinter(AddrList[2], Unreachable, 0) >>

\* State after start-up; the registry is what storage.loadPrinters() gave
\* and the history what data/alert-history.json holds.
InitFrom(loaded, configs, histories) ==
  /\ now = 0
  /\ printers = loaded
  /\ scanStatus = [scanning |-> FALSE, lastScan |-> -1]
  /\ config \in configs
  /\ alertCooldown = <<>>
  /\ offlineTimestamps = <<>>
  /\ alertHistory \in histories
  /\ snapshots = <<>>
  /\ jobs = {}
  /\ scans = {}
  /\ fireLog = <<>>
  /\ lastRefresh = 0
  /\ ops = 0
  /\ dispatched = 0
  /\ outbox = <<>>
  /\ daily = <<>>
  /\ recorded = <<>>
  /\ passTime = -1
  /\ asked = <<>>
  /\ responses = <<>>

InitWith(loaded, configs) == InitFrom(loaded, configs, {<<>>})

Init == InitWith(<<>>, AlertConfigs)
InitSaved == InitWith(savedPrinters, AlertConfigs)
InitQuiet == InitWith(savedPrinters, QuietConfigs)
InitBlank == InitWith(<<>>, QuietConfigs)
InitOutage == InitWith(savedPrinters, OutageConfigs)

engineVars ==
  <<alertCooldown, offlineTimestamps, alertHistory, fireLog, dispatched, outbox>>
scanVars == <<scanStatus, scans, responses>>
histVars == <<snapshots, daily, recorded, passTime, asked>>

\* ------------------------------------------------------------------ clock
Tick(limit) ==
  /\ now < limit
  /\ now' = now + 1
  /\ UNCHANGED <<printers, jobs, config, engineVars, scanVars, histVars,
                 lastRefresh, ops>>

\* -------------------------------------------------------------- poll loops
\* A loop "for (const ip of ips) { data = await queryPrinter(ip);
\* printers.set(ip, data) }" in flight: ips, the index being polled, and
\* the time queryPrinter was called for it (it stamps lastUpdate then).
\* id tells two loops of one kind apart: the minute the interval fired, or
\* the number of the API request. wrote is history: the snapshots the loop
\* has set so far, in the order of ips.
Job(kind, ips, id) ==
  [kind |-> kind, id |-> id, ips |-> ips, i |-> 1, t0 |-> now, wrote |-> <<>>]

ApplyEngine(st) ==
  /\ alertCooldown' = st.cd
  /\ offlineTimestamps' = st.off
  /\ alertHistory' = st.hist
  /\ fireLog' = st.log
  /\ dispatched' = st.sent
  /\ outbox' = st.out

\* setInterval(async () => {...}, 60000) fires, a minute or more after it
\* last did: a cycle starts unless the registry is empty or a scan runs.
AutoRefresh ==
  /\ now > lastRefresh
  /\ lastRefresh' = now
  /\ IF Len(printers) > 0 /\ ~scanStatus.scanning
     THEN jobs' = jobs \cup {Job("cycle", Keys(printers), now)}
     ELSE UNCHANGED jobs
  /\ UNCHANGED <<now, printers, config, engineVars, scanVars, histVars, ops>>

\* Variant: an exception in a poll escapes queryPrinter and ends the loop.
PollReturnsUncaught(j, resp) ==
  /\ j \in jobs
  /\ LET ip == j.ips[j.i]
         reg == MapSet(printers, ip, queryPrinter(ip, resp, j.t0))
     IN  IF resp.kind = "throws"
         THEN /\ jobs' = jobs \ {j}
              /\ UNCHANGED <<printers, engineVars>>
         ELSE /\ printers' = reg
              /\ IF j.i < Len(j.ips)
                 THEN /\ jobs' = (jobs \ {j}) \cup {[j EXCEPT !.i = j.i + 1, !.t0 = now,
                                        !.wrote = Append(j.wrote, Get(reg, ip))]}
                      /\ UNCHANGED engineVars
                 ELSE /\ jobs' = jobs \ {j}
                      /\ IF j.kind = "cycle"
                         THEN ApplyEngine(checkAlerts(EngineState, reg, now, config))
                         ELSE UNCHANGED engineVars
  /\ asked' = IF resp.kind = "probe"
               THEN queryLog(j.ips[j.i], resp, j.t0).asked ELSE asked
  /\ UNCHANGED <<now, config, scanVars, snapshots, daily, recorded, passTime,
                 lastRefresh, ops>>

\* queryPrinter resolves for the address a loop is waiting on: the snapshot
\* is committed, and the loop goes on to its next address or ends; the
\* periodic cycle ends with checkAlerts().
PollReturns(j, resp) ==
  /\ j \in jobs
  /\ LET ip == j.ips[j.i]
         reg == MapSet(printers, ip, queryPrinter(ip, resp, j.t0))
     IN  /\ printers' = reg
         /\ IF j.i < Len(j.ips)
            THEN /\ jobs' = (jobs \ {j}) \cup {[j EXCEPT !.i = j.i + 1, !.t0 = now,
                                        !.wrote = Append(j.wrote, Get(reg, ip))]}
                 /\ UNCHANGED engineVars
            ELSE /\ jobs' = jobs \ {j}
                 /\ IF j.kind = "cycle"
                    THEN ApplyEngine(checkAlerts(EngineState, reg, now, config))
                    ELSE UNCHANGED engineVars
  /\ asked' = IF resp.kind = "probe"
               THEN queryLog(j.ips[j.i], resp, j.t0).asked ELSE asked
  /\ UNCHANGED <<now, config, scanVars, snapshots, daily, recorded, passTime,
                 lastRefresh, ops>>

\* An API request is served (the model serves MaxOps of them).
Served == ops < MaxOps /\ ops' = ops + 1

\* POST /api/printers
AddDevice(ip) ==
  /\ Served
  /\ jobs' = jobs \cup {Job("add", <<ip>>, ops + 1)}
  /\ UNCHANGED <<now, printers, config, engineVars, scanVars, histVars,
                 lastRefresh>>

\* Variant: the route also forgets the offline timer of the address.
RemoveDeviceAndTimer(ip) ==
  /\ Served
  /\ IF Has(printers, ip)
     THEN printers' = MapDelete(printers, ip)
     ELSE UNCHANGED printers
  /\ offlineTimestamps' =
       [a \in DOMAIN offlineTimestamps \ {ip} |-> offlineTimestamps[a]]
  /\ UNCHANGED <<now, jobs, config, alertCooldown, alertHistory, fireLog,
                 dispatched, outbox, scanVars, histVars, lastRefresh>>

\* DELETE /api/printers/:ip
RemoveDevice(ip) ==
  /\ Served
  /\ IF Has(printers, ip)
     THEN printers' = MapDelete(printers, ip)
     ELSE UNCHANGED printers
  /\ UNCHANGED <<now, jobs, config, engineVars, scanVars, histVars, lastRefresh>>

\* POST /api/printers/refresh
RefreshAll ==
  /\ Served
  /\ IF Len(printers) > 0
     THEN jobs' = jobs \cup {Job("refreshAll", Keys(printers), ops + 1)}
     ELSE UNCHANGED jobs
  /\ UNCHANGED <<now, printers, config, engineVars, scanVars, histVars,
                 lastRefresh>>

\* POST /api/printers/:ip/refresh
RefreshOne(ip) ==
  /\ Served
  /\ IF Has(printers, ip)
     THEN jobs' = jobs \cup {Job("refreshOne", <<ip>>, ops + 1)}
     ELSE UNCHANGED jobs
  /\ UNCHANGED <<now, printers, config, engineVars, scanVars, histVars,
                 lastRefresh>>

\* ------------------------------------------------------------- alerts API
AlertIds == {alertHistory[i].id : i \in DOMAIN alertHistory}

\* An id no stored alert has.
NoSuchId == -1

\* POST /api/alerts/:id/acknowledge
Acknowledge(id) ==
  /\ Served
  /\ LET i == FindAlert(alertHistory, id)
     IN  IF i # 0
         THEN LET alert == alertHistory[i]
                  cooldownKey == CooldownKey(alert.type, alert.printerIp,
                                             alert.supplyName)
              IN  /\ alertHistory' = acknowledgeAlert(alertHistory, id, now)
                  /\ alertCooldown' = clearCooldown(alertCooldown, cooldownKey)
                  /\ fireLog' = Append(fireLog, [ev |-> "ack", key |-> cooldownKey,
                                                 t |-> now, details |-> NoDetails])
         ELSE UNCHANGED <<alertHistory, alertCooldown, fireLog>>
  /\ UNCHANGED <<now, printers, jobs, config, offlineTimestamps, dispatched,
                 outbox, scanVars, histVars, lastRefresh>>

\* POST /api/alerts/acknowledge-all
AcknowledgeAll ==
  /\ Served
  /\ alertHistory' = acknowledgeAllLoop(alertHistory, alertHistory, 1, now)
  /\ UNCHANGED <<now, printers, jobs, config, alertCooldown, offlineTimestamps,
                 fireLog, dispatched, outbox, scanVars, histVars, lastRefresh>>

\* Variant: deleting an event re-arms its key as acknowledging does.
DeleteAlertRearms(id) ==
  /\ Served
  /\ alertHistory' = deleteAlert(alertHistory, id)
  /\ LET i == FindAlert(alertHistory, id)
     IN  alertCooldown' =
           IF i = 0 THEN alertCooldown
           ELSE clearCooldown(alertCooldown,
                              CooldownKey(alertHistory[i].type,
                                          alertHistory[i].printerIp,
                                          alertHistory[i].supplyName))
  /\ UNCHANGED <<now, printers, jobs, config, offlineTimestamps,
                 fireLog, dispatched, outbox, scanVars, histVars, lastRefresh>>

\* DELETE /api/alerts/:id
DeleteAlert(id) ==
  /\ Served
  /\ alertHistory' = deleteAlert(alertHistory, id)
  /\ UNCHANGED <<now, printers, jobs, config, alertCooldown, offlineTimestamps,
                 fireLog, dispatched, outbox, scanVars, histVars, lastRefresh>>

\* DELETE /api/alerts
ClearAlerts ==
  /\ Served
  /\ alertHistory' = saveAlertHistory(<<>>)
  /\ UNCHANGED <<now, printers, jobs, config, alertCooldown, offlineTimestamps,
                 fireLog, dispatched, outbox, scanVars, histVars, lastRefresh>>

\* ----------------------------------------------------------- alert engine
\* The periodic cycle with its alert evaluation, and the alerts API; here
\* a cycle is over before the interval fires again.
NextAlert ==
  \/ Tick(MaxTime)
  \/ (jobs = {} /\ AutoRefresh)
  \/ \E j \in jobs : \E resp \in AlertAnswers(j.ips[j.i]) : PollReturns(j, resp)
  \/ \E ip \in Addrs : RemoveDevice(ip)
  \/ \E id \in AlertIds \cup {NoSuchId} : Acknowledge(id)
  \/ AcknowledgeAll
  \/ \E id \in AlertIds \cup {NoSuchId} : DeleteAlert(id)
  \/ ClearAlerts

SpecAlert == InitSaved /\ [][NextAlert]_vars

\* What the claims below read off a run.
Max(S) == CHOOSE x \in S : \A y \in S : y <= x
Min(S) == CHOOSE x \in S : \A y \in S : x <= y

SupplyNames == {Toner, Ink, Drum}
ClaimKeys ==
  {<<ip, ty>> : ip \in Addrs, ty \in {"offline", "back-online"}}
    \cup {<<ip, ty, n>> : ip \in Addrs, ty \in {"low-supply", "critical-supply"},
                          n \in SupplyNames}

\* The step in which a periodic cycle commits its last snapshot and runs
\* the alert evaluation.
EvalStep ==
  \E j \in jobs : j.kind = "cycle" /\ j.i = Len(j.ips) /\ jobs' = jobs \ {j}

\* Entries the step appended to the log.
NewEntries == (Len(fireLog) + 1)..Len(fireLog')
FiredNow(k) ==
  \E m \in NewEntries : fireLog'[m].ev = "fire" /\ fireLog'[m].key = k
StoredNow(k) ==
  {m \in DOMAIN alertHistory' :
     /\ alertHistory'[m].id = now /\ alertHistory'[m].timestamp = now
     /\ ~alertHistory'[m].acknowledged
     /\ k = (IF alertHistory'[m].supplyName = <<>>
             THEN <<alertHistory'[m].printerIp, alertHistory'[m].type>>
             ELSE <<alertHistory'[m].printerIp, alertHistory'[m].type,
                    alertHistory'[m].supplyName>>)
     /\ (m > Len(alertHistory) \/ alertHistory[m] # alertHistory'[m])}

\* The evaluation of the step calls triggerAlert for key k: the condition
\* of k holds for the registry the evaluation reads.
Attempted(k) ==
  /\ config.enabled
  /\ \E m \in DOMAIN printers' :
       LET p == printers'[m]
           started == IF p.ip \in DOMAIN offlineTimestamps
                      THEN offlineTimestamps[p.ip] ELSE now
       IN  /\ p.ip = k[1]
           /\ CASE k[2] = "offline" ->
                     IsOffline(p) /\ now - started >= config.offlineMinutes
                [] k[2] = "back-online" ->
                     ~IsOffline(p) /\ p.ip \in DOMAIN offlineTimestamps
                [] k[2] = "critical-supply" ->
                     /\ ~IsOffline(p)
                     /\ \E x \in DOMAIN p.supplies :
                          /\ p.supplies[x].name = k[3]
                          /\ SupplyConsidered(k[3])
                          /\ Percentage(p.supplies[x]) >= 0
                          /\ Percentage(p.supplies[x]) < config.criticalSupplyThreshold
                [] k[2] = "low-supply" ->
                     /\ ~IsOffline(p)
                     /\ \E x \in DOMAIN p.supplies :
                          /\ p.supplies[x].name = k[3]
                          /\ SupplyConsidered(k[3])
                          /\ Percentage(p.supplies[x]) >= config.criticalSupplyThreshold
                          /\ Percentage(p.supplies[x]) < config.lowSupplyThreshold

\* Indices of the creations and acknowledges of key k in a log.
KeyEntries(log, k) ==
  {m \in DOMAIN log : log[m].key = k /\ log[m].ev \in {"fire", "ack"}}

\* C1: for every cooldown key, two alert events with that key are never
\* created less than cooldownHours apart unless an event with that key was
\* acknowledged between them (the configuration does not change in these runs).
C1_CooldownSpacing ==
  \A i, j \in DOMAIN fireLog :
    ( /\ i < j
      /\ fireLog[i].ev = "fire" /\ fireLog[j].ev = "fire"
      /\ fireLog[i].key = fireLog[j].key
      /\ ~\E m \in (i + 1)..(j - 1) :
            fireLog[m].ev = "ack" /\ fireLog[m].key = fireLog[i].key )
    => fireLog[j].t - fireLog[i].t >= config.cooldownHours

\* C1 witness: a key fired, its cooldown ran out with no acknowledge, and
\* it fired again.
C1_Witness ==
  \E i, j \in DOMAIN fireLog :
    /\ i < j /\ fireLog[i].ev = "fire" /\ fireLog[j].ev = "fire"
    /\ fireLog[i].key = fireLog[j].key
    /\ ~\E m \in (i + 1)..(j - 1) :
          fireLog[m].ev = "ack" /\ fireLog[m].key = fireLog[i].key

\* C2: in an evaluation, triggerAlert for key k creates and stores an event
\* and sets cooldown[k] = now exactly when cooldown[k] is absent or
\* now - cooldown[k] >= the cooldown duration; a suppressed key gets no
\* event, no dispatch, and keeps its cooldown entry as it was.  Entries of
\* other keys (another type, another supply, another address) play no part.
C2_TriggerIffNotCoolingDown ==
  [][EvalStep =>
      /\ \A k \in ClaimKeys :
           LET free == k \notin DOMAIN alertCooldown
                       \/ now - alertCooldown[k] >= cooldownMs(config)
           IN  /\ FiredNow(k) <=> (Attempted(k) /\ free)
               /\ FiredNow(k) =>
                    /\ k \in DOMAIN alertCooldown' /\ alertCooldown'[k] = now
                    /\ Cardinality(StoredNow(k)) = 1
               /\ ~FiredNow(k) =>
                    /\ StoredNow(k) = {}
                    /\ (k \in DOMAIN alertCooldown') = (k \in DOMAIN alertCooldown)
                    /\ k \in DOMAIN alertCooldown =>
                         alertCooldown'[k] = alertCooldown[k]
      /\ DOMAIN alertCooldown' \subseteq ClaimKeys
      /\ dispatched' - dispatched = Cardinality({k \in ClaimKeys : FiredNow(k)})
      /\ Len(alertHistory') - Len(alertHistory)
           = Cardinality({k \in ClaimKeys : FiredNow(k)})
    ]_vars

\* C2 witness: an evaluation has created one alert of a printer while
\* another key of the same printer was cooling down and stayed suppressed.
C2_Witness ==
  \E i, j \in DOMAIN fireLog :
    /\ fireLog[i].ev = "fire" /\ fireLog[j].ev = "fire"
    /\ fireLog[i].key = <<"10.0.0.1", "low-supply", Ink>>
    /\ fireLog[j].key = <<"10.0.0.1", "critical-supply", Toner>>
    /\ fireLog[j].t > fireLog[i].t
    /\ fireLog[j].t - fireLog[i].t < cooldownMs(config)
    /\ Cardinality({m \in DOMAIN fireLog :
          fireLog[m].ev = "fire" /\ fireLog[m].key = fireLog[i].key}) = 1
    /\ alertCooldown[fireLog[i].key] = fireLog[i].t

\* The key's latest creation or acknowledge in the log is an acknowledge.
AckedLast(k) ==
  /\ KeyEntries(fireLog, k) # {}
  /\ fireLog[Max(KeyEntries(fireLog, k))].ev = "ack"

AckStep ==
  /\ Len(fireLog') = Len(fireLog) + 1
  /\ fireLog'[Len(fireLog')].ev = "ack"

\* C3: once acknowledge(id) has succeeded for an event, the cooldown entry
\* of that event's key is absent, and the next evaluation in which the
\* key's condition holds creates a new event for it, however recent the
\* acknowledged one is.
C3_AcknowledgeRearms ==
  [][ /\ AckStep => fireLog'[Len(fireLog')].key \notin DOMAIN alertCooldown'
      /\ EvalStep => \A k \in ClaimKeys :
                       (AckedLast(k) /\ Attempted(k)) => FiredNow(k)
      /\ (~EvalStep /\ ~AckStep) => alertCooldown' = alertCooldown
    ]_vars

\* C3 witness: an event was created, acknowledged, and created again for
\* the same key less than cooldownHours later.
C3_Witness ==
  \E i, m, j \in DOMAIN fireLog :
    /\ i < m /\ m < j
    /\ fireLog[i].ev = "fire" /\ fireLog[m].ev = "ack" /\ fireLog[j].ev = "fire"
    /\ fireLog[i].key = fireLog[m].key /\ fireLog[i].key = fireLog[j].key
    /\ fireLog[j].t - fireLog[i].t < config.cooldownHours

\* ------------------------------------------------------ offline / recovery
\* The periodic cycle over printers that only go off and come back (their
\* supplies stay above the thresholds), with acknowledges.
OutageAnswers(ip) ==
  IF ip = "10.0.0.2" THEN {Unreachable} ELSE {Unreachable, Answer(100, 25, 50)}

NextOutage ==
  \/ Tick(MaxOutageTime)
  \/ (jobs = {} /\ AutoRefresh)
  \/ \E j \in jobs : \E resp \in OutageAnswers(j.ips[j.i]) : PollReturns(j, resp)
  \/ \E id \in AlertIds \cup {NoSuchId} : Acknowledge(id)

SpecOutage == InitOutage /\ [][NextOutage]_vars

\* What the evaluations saw of the device at ip, as indices of the log.
SeenIdx(ip) ==
  {m \in DOMAIN fireLog : fireLog[m].ev = "seen" /\ fireLog[m].key[1] = ip}

\* No cooldown entry of key k is left by what the log holds before index i.
ArmedAt(k, i) ==
  LET before == {m \in KeyEntries(fireLog, k) : m < i}
  IN  before = {} \/ fireLog[Max(before)].ev = "ack"

\* An outage of the device at ip in the log: first seen down at index i
\* (with no cooldown entries of its own), seen down at every evaluation up
\* to the one at index j that sees it online, nothing acknowledged for it in
\* between, and threshold <= span of the down observations < cooldown.
Outage(ip, i, j) ==
  /\ i < j
  /\ fireLog[i].ev = "seen" /\ fireLog[i].key = <<ip, "down">>
  /\ fireLog[j].ev = "seen" /\ fireLog[j].key = <<ip, "up">>
  /\ \A m \in SeenIdx(ip) : (i < m /\ m < j) => fireLog[m].key[2] = "down"
  /\ LET prev == {m \in SeenIdx(ip) : m < i}
     IN  prev = {} \/ fireLog[Max(prev)].key[2] = "up"
  /\ ArmedAt(<<ip, "offline">>, i) /\ ArmedAt(<<ip, "back-online">>, i)
  /\ ~\E m \in i..j : fireLog[m].ev = "ack" /\ fireLog[m].key[1] = ip
  /\ LET last == Max({m \in SeenIdx(ip) : m < j})
         D == fireLog[last].t - fireLog[i].t
     IN  config.offlineMinutes <= D /\ D < config.cooldownHours

networkPrefix == "10.0.0"
HostIp(prefix, i) == prefix \o "." \o ToString(i)

DescSwitch == <<"S", "W">>
\* what snmpGet of the description can resolve to; <<>> is null
Descs == {<<>>, DescHP, DescSwitch}

keywords ==
  { <<"p","r","i","n","t","e","r">>, <<"h","p">>, <<"c","a","n","o","n">>,
    <<"b","r","o","t","h","e","r">>, <<"e","p","s","o","n">>,
    <<"x","e","r","o","x">>, <<"l","e","x","m","a","r","k">>,
    <<"s","a","m","s","u","n","g">>, <<"r","i","c","o","h">>,
    <<"k","y","o","c","e","r","a">>, <<"z","e","b","r","a">> }

LooksLikePrinter(desc) ==
  desc # <<>> /\ \E k \in keywords : includes(toLowerCase(desc), k)

\* Hosts of the batch that begins at start.
BatchHosts(start) ==
  {i \in start..(start + batchSize - 1) : i <= LastHost}

\* Hosts of the batch something may answer for: the rest of the range is
\* silent, and snmpGet resolves null for a silent host.
Answering(start) ==
  {i \in BatchHosts(start) : HostIp(networkPrefix, i) \in Addrs}

\* The addresses of a batch whose description names a printer, in host order.
RECURSIVE FoundFrom(_, _, _)
FoundFrom(i, last, reply) ==
  IF i > last THEN <<>>
  ELSE IF i \in DOMAIN reply /\ LooksLikePrinter(reply[i])
       THEN <<HostIp(networkPrefix, i)>> \o FoundFrom(i + 1, last, reply)
       ELSE FoundFrom(i + 1, last, reply)

\* One execution of scanNetworkRange, suspended in an await: of the batch
\* at start when pending is empty, else of queryPrinter for Head(pending),
\* begun at t0. cancelled notes that a cancel request came while the
\* execution was in flight (the code keeps no such record).
ScanLoop(id) ==
  [id |-> id, start |-> 1, pending |-> <<>>, t0 |-> -1, cancelled |-> FALSE]

\* The loop moves past the batch at sc.start: the next batch goes out if
\* there is one and the flag is still set, else the scan ends.
ContinueScan(sc) ==
  LET next == sc.start + batchSize
  IN  IF next <= LastHost /\ scanStatus.scanning
      THEN /\ scans' = (scans \ {sc})
                         \cup {[sc EXCEPT !.start = next, !.pending = <<>>, !.t0 = -1]}
           /\ scanStatus' = scanStatus
      ELSE /\ scans' = scans \ {sc}
           /\ scanStatus' = [scanning |-> FALSE, lastScan |-> now]

\* Variant: the route starts a scan whatever the flag says.
StartScanUnguarded ==
  /\ Len(responses) < MaxScans
  /\ responses' = Append(responses, "started")
  /\ scanStatus' = [scanStatus EXCEPT !.scanning = TRUE]
  /\ scans' = scans \cup {ScanLoop(Len(responses) + 1)}
  /\ UNCHANGED <<now, printers, jobs, config, engineVars, histVars,
                 lastRefresh, ops>>

\* POST /api/scan
StartScan ==
  /\ Len(responses) < MaxScans
  /\ IF scanStatus.scanning
     THEN /\ responses' = Append(responses, "conflict")
          /\ UNCHANGED <<scanStatus, scans>>
     ELSE /\ responses' = Append(responses, "started")
          /\ scanStatus' = [scanStatus EXCEPT !.scanning = TRUE]
          /\ scans' = scans \cup {ScanLoop(Len(responses) + 1)}
  /\ UNCHANGED <<now, printers, jobs, config, engineVars, histVars,
                 lastRefresh, ops>>

\* POST /api/scan/cancel
CancelScan ==
  /\ scanStatus' = [scanStatus EXCEPT !.scanning = FALSE]
  /\ scans' = {[sc EXCEPT !.cancelled = TRUE] : sc \in scans}
  /\ UNCHANGED <<now, printers, jobs, config, engineVars, histVars,
                 lastRefresh, ops, responses>>

\* Promise.all of a batch resolves.
BatchReturns(sc, reply) ==
  /\ sc.pending = <<>>
  /\ LET found == FoundFrom(sc.start, sc.start + batchSize - 1, reply)
     IN  IF found = <<>> THEN ContinueScan(sc)
         ELSE /\ scans' = (scans \ {sc})
                            \cup {[sc EXCEPT !.pending = found, !.t0 = now]}
              /\ scanStatus' = scanStatus
  /\ UNCHANGED <<now, printers, jobs, config, engineVars, histVars,
                 lastRefresh, ops, responses>>

\* queryPrinter of a found address resolves and the address is registered.
FoundReturns(sc, resp) ==
  /\ sc.pending # <<>>
  /\ printers' = MapSet(printers, Head(sc.pending),
                        queryPrinter(Head(sc.pending), resp, sc.t0))
  /\ IF Tail(sc.pending) = <<>> THEN ContinueScan(sc)
     ELSE /\ scans' = (scans \ {sc})
                        \cup {[sc EXCEPT !.pending = Tail(sc.pending), !.t0 = now]}
          /\ scanStatus' = scanStatus
  /\ UNCHANGED <<now, jobs, config, engineVars, histVars, lastRefresh, ops,
                 responses>>

ScanAnswers == {Unreachable, Answer(100, 25, 50)}

NextScan ==
  \/ StartScan
  \/ CancelScan
  \/ \E sc \in scans : \E reply \in [Answering(sc.start) -> Descs] :
        BatchReturns(sc, reply)
  \/ \E sc \in scans : \E resp \in ScanAnswers : FoundReturns(sc, resp)

SpecScan == Init /\ [][NextScan]_vars

\* C5: at most one discovery scan is in flight at any time: no state has
\* two executions of the scan loop still running.
C5_OneScanInFlight == Cardinality(scans) <= 1

\* The step is a POST /api/scan.
StartScanStep == Len(responses') = Len(responses) + 1

\* C6: startScan called while scanning = true answers with a conflict,
\* starts no scan, and leaves scanning, lastScan and the registry as they
\* were; the loops in flight stay where they are.
C6_ConflictChangesNothing ==
  [][(StartScanStep /\ scanStatus.scanning) =>
       /\ responses'[Len(responses')] = "conflict"
       /\ scanStatus' = scanStatus
       /\ printers' = printers
       /\ scans' = scans
    ]_vars

\* C6 witness: a request was refused while a scan that had registered a
\* printer was still running.
C6_Witness ==
  /\ Len(responses) >= 1
  /\ responses[Len(responses)] = "conflict"
  /\ scanStatus.scanning
  /\ scans # {}
  /\ printers # <<>>

\* ---------------------------------------------------------------- polling
\* What a poll may find: no answer to the description (or a timeout, which
\* snmpGet resolves as null), an exception once the description is in, or
\* a full answer.  The second printer stays switched off.
PollOutcomes(ip) ==
  IF ip = "10.0.0.2" THEN {Unreachable}
  ELSE {Unreachable, Throws, Answer(100, 25, 50)}

NextPoll ==
  \/ Tick(MaxTime)
  \/ ((~\E j \in jobs : j.kind = "cycle") /\ AutoRefresh)
  \/ \E j \in jobs : \E resp \in PollOutcomes(j.ips[j.i]) : PollReturns(j, resp)
  \/ \E ip \in Addrs : AddDevice(ip)
  \/ \E ip \in Addrs : RemoveDevice(ip)
  \/ RefreshAll
  \/ \E ip \in Addrs : RefreshOne(ip)

SpecPoll == InitQuiet /\ [][NextPoll]_vars

\* The step is the return of the poll that loop j was waiting on.
PollStep(j) == j \in jobs /\ j \notin jobs'
PolledIp(j) == j.ips[j.i]

\* C7: when a poll of a registered device finds it unreachable, the
\* snapshot committed has online = false and status = offline and keeps
\* the supplies, trays, errors and identity fields of the previous snapshot.
C7_UnreachableKeepsPrevious ==
  [][\A j \in jobs :
       ( /\ PollStep(j)
         /\ Has(printers, PolledIp(j))
         /\ Has(printers', PolledIp(j))
         /\ ~Get(printers', PolledIp(j)).online )
       => LET old == Get(printers, PolledIp(j))
              new == Get(printers', PolledIp(j))
          IN  /\ new.status = "offline"
              /\ new.supplies = old.supplies
              /\ new.trays = old.trays
              /\ new.errors = old.errors
              /\ new.name = old.name /\ new.model = old.model
              /\ new.serial = old.serial
    ]_vars

\* C8: polling the same unreachable device twice in a row is idempotent:
\* both snapshots have status = offline and agree on every field other
\* than lastUpdate.
C8_UnreachableTwiceIdempotent ==
  [][\A j \in jobs :
       ( /\ PollStep(j)
         /\ Has(printers, PolledIp(j))
         /\ Has(printers', PolledIp(j))
         /\ ~Get(printers, PolledIp(j)).online
         /\ ~Get(printers', PolledIp(j)).online )
       => LET old == Get(printers, PolledIp(j))
              new == Get(printers', PolledIp(j))
          IN  /\ old.status = "offline" /\ new.status = "offline"
              /\ [new EXCEPT !.lastUpdate = old.lastUpdate] = old
    ]_vars

\* C8 witness: only the first periodic cycle has run, and the second
\* printer, saved as unreachable, has been polled again and found unreachable.
C8_Witness ==
  /\ ops = 0 /\ lastRefresh = 1
  /\ Has(printers, "10.0.0.2")
  /\ ~Get(printers, "10.0.0.2").online
  /\ Get(printers, "10.0.0.2").lastUpdate = 2

\* C9: a periodic cycle and refreshAll take the addresses registered when
\* they start; every poll that returns, whatever it found, has its snapshot
\* written (status offline when the device did not answer or the poll
\* raised), and the loop goes on to its next address: it ends only after
\* its last one, and no other loop is disturbed.
C9_EveryAddressPolledAndWritten ==
  [][ /\ \A k \in jobs' :
           (k.kind \in {"cycle", "refreshAll"}
              /\ ~\E j \in jobs : j.kind = k.kind /\ j.id = k.id)
           => k.ips = Keys(printers) /\ k.i = 1
      /\ \A j \in jobs :
           PollStep(j) =>
             /\ Has(printers', PolledIp(j))
             /\ LET new == Get(printers', PolledIp(j))
                IN  /\ new.ip = PolledIp(j) /\ new.lastUpdate = j.t0
                    /\ (~new.online \/ new.serial = <<>>) => new.status = "offline"
             /\ IF j.i < Len(j.ips)
                THEN \E k \in jobs' :
                       /\ k.kind = j.kind /\ k.id = j.id /\ k.ips = j.ips
                       /\ k.i = j.i + 1
                ELSE ~\E k \in jobs' : k.kind = j.kind /\ k.id = j.id
             /\ \A k \in jobs \ {j} : k \in jobs'
    ]_vars

\* C9 witness: only periodic cycles have run, and the cycle in flight has
\* written the offline snapshot of a first address whose poll raised and is
\* polling its second address.
C9_Witness ==
  /\ ops = 0
  /\ \E j \in jobs :
       /\ j.kind = "cycle" /\ j.i = 2
       /\ Has(printers, j.ips[1])
       /\ LET p == Get(printers, j.ips[1])
          IN  p.online /\ p.status = "offline" /\ p.lastUpdate = j.id

\* ---------------------------------------------------------------- history
\* percentage as recordSnapshot computes it (0, not 100, without a maximum)
HistoryPercentage(supply) ==
  IF supply.max > 0 THEN Round(supply.current * 100, supply.max) ELSE 0

SupplyLevels(printer) ==
  [k \in DOMAIN printer.supplies |->
     [name |-> printer.supplies[k].name,
      percentage |-> HistoryPercentage(printer.supplies[k])]]

Snapshot(printerList, t) ==
  [timestamp |-> t,
   printers |-> [i \in DOMAIN printerList |->
      [ip |-> printerList[i].ip, name |-> printerList[i].name,
       status |-> printerList[i].status, online |-> printerList[i].online,
       totalPages |-> printerList[i].totalPages,
       supplies |-> SupplyLevels(printerList[i])]]]

\* Variant: the ring lets go of its newest element when it is full.
pushSnapshotNewestOut(ring, snapshot) ==
  LET pushed == Append(ring, snapshot)
  IN  IF Len(pushed) > maxSnapshots
      THEN SubSeq(pushed, 1, Len(pushed) - 1)
      ELSE pushed

\* snapshots.push(snapshot); if (length > maxSnapshots) snapshots.shift()
pushSnapshot(ring, snapshot) ==
  LET pushed == Append(ring, snapshot)
  IN  IF Len(pushed) > maxSnapshots THEN Tail(pushed) ELSE pushed

\* An object used as a map from address: obj[ip] = v
Put(obj, ip, v) == [a \in DOMAIN obj \cup {ip} |-> IF a = ip THEN v ELSE obj[a]]
\* !obj[ip] for a numeric entry: absent, or 0
Falsy(obj, ip) == ip \notin DOMAIN obj \/ obj[ip] = 0

NewDay ==
  [pageCountStart |-> <<>>, pageCountEnd |-> <<>>, supplyLevels |-> <<>>,
   uptimeMinutes |-> <<>>, totalMinutes |-> <<>>]

\* Variant: a sample counts towards the day's total only when the device is
\* online.
updateDailyOnlineOnly(dailyData, printer) ==
  LET ip == printer.ip
      fresh == Falsy(dailyData.totalMinutes, ip)
      total == IF fresh THEN 0 ELSE dailyData.totalMinutes[ip]
      up == IF fresh THEN 0 ELSE dailyData.uptimeMinutes[ip]
  IN  [dailyData EXCEPT
         !.pageCountEnd = Put(dailyData.pageCountEnd, ip, printer.totalPages),
         !.uptimeMinutes = Put(dailyData.uptimeMinutes, ip,
                               IF printer.online THEN up + 1 ELSE up),
         !.totalMinutes = Put(dailyData.totalMinutes, ip,
                              IF printer.online THEN total + 1 ELSE total)]

\* The body of "for (const printer of printerList)" on the day's aggregates.
updateDaily(dailyData, printer) ==
  LET ip == printer.ip
      start == IF Falsy(dailyData.pageCountStart, ip)
               THEN Put(dailyData.pageCountStart, ip, printer.totalPages)
               ELSE dailyData.pageCountStart
      fresh == Falsy(dailyData.totalMinutes, ip)
      total == IF fresh THEN 0 ELSE dailyData.totalMinutes[ip]
      up == IF fresh THEN 0 ELSE dailyData.uptimeMinutes[ip]
  IN  [pageCountStart |-> start,
       pageCountEnd |-> Put(dailyData.pageCountEnd, ip, printer.totalPages),
       supplyLevels |-> Put(dailyData.supplyLevels, ip, SupplyLevels(printer)),
       uptimeMinutes |-> Put(dailyData.uptimeMinutes, ip,
                             IF printer.online THEN up + 1 ELSE up),
       totalMinutes |-> Put(dailyData.totalMinutes, ip, total + 1)]

RECURSIVE updateDailyLoop(_, _, _)
updateDailyLoop(dailyData, printerList, i) ==
  IF i > Len(printerList) THEN dailyData
  ELSE updateDailyLoop(updateDaily(dailyData, printerList[i]), printerList, i + 1)

\* The day of a time, and the aggregates after one pass: today's entry is
\* made if missing and updated, days older than 30 days are dropped.
Day(t) == t \div MinutesPerDay
recordDaily(dly, printerList, t) ==
  LET today == Day(t)
      before == IF today \in DOMAIN dly THEN dly[today] ELSE NewDay
      after == updateDailyLoop(before, printerList, 1)
      kept == {d \in DOMAIN dly \cup {today} : ~(d < today - RetentionDays)}
  IN  [d \in kept |-> IF d = today THEN after ELSE dly[d]]

\* Variant: the pass does not return early on an empty registry.
recordSnapshotAlways ==
  /\ passTime < now
  /\ passTime' = now
  /\ snapshots' = pushSnapshot(snapshots, Snapshot(printers, now))
  /\ daily' = recordDaily(daily, printers, now)
  /\ recorded' = Append(recorded, Snapshot(printers, now))
  /\ UNCHANGED <<now, printers, jobs, config, engineVars, scanVars,
                 lastRefresh, ops, asked>>

\* setInterval(recordSnapshot, 60000): a pass, a minute or more after the
\* last one; with an empty registry it returns before it touches anything.
recordSnapshot ==
  /\ passTime < now
  /\ passTime' = now
  /\ IF Len(printers) = 0
     THEN UNCHANGED <<snapshots, daily, recorded>>
     ELSE /\ snapshots' = pushSnapshot(snapshots, Snapshot(printers, now))
          /\ daily' = recordDaily(daily, printers, now)
          /\ recorded' = Append(recorded, Snapshot(printers, now))
  /\ UNCHANGED <<now, printers, jobs, config, engineVars, scanVars,
                 lastRefresh, ops, asked>>

NextHist ==
  \/ Tick(MaxRecords - 1)
  \/ recordSnapshot
  \/ \E ip \in Addrs : AddDevice(ip)
  \/ \E ip \in Addrs : RemoveDevice(ip)
  \/ \E j \in jobs : \E resp \in PollOutcomes(j.ips[j.i]) : PollReturns(j, resp)

SpecHist == InitBlank /\ [][NextHist]_vars

\* The last n elements of a sequence (all of it when it is shorter).
LastN(seq, n) ==
  IF Len(seq) <= n THEN seq ELSE SubSeq(seq, Len(seq) - n + 1, Len(seq))

\* C10: after any number of recording passes the ring holds at most
\* maxSnapshots snapshots, and they are the most recently recorded ones,
\* oldest first.
C10_RingHoldsMostRecent ==
  /\ Len(snapshots) <= maxSnapshots
  /\ snapshots = LastN(recorded, maxSnapshots)

\* C10 witness: five recordings have left the 3rd, 4th and 5th in a ring
\* of three.
C10_Witness ==
  /\ Len(recorded) = 5
  /\ maxSnapshots = 3
  /\ snapshots = <<recorded[3], recorded[4], recorded[5]>>
  /\ recorded[1] # recorded[3]

\* ------------------------------------------------------- daily aggregates
\* obj[ip] || dflt for a numeric entry
OrElse(obj, ip, dflt) == IF Falsy(obj, ip) THEN dflt ELSE obj[ip]

\* GET /api/history/daily: the summary of one printer for one date.
DailySummary(data, ip) ==
  LET pagesStart == OrElse(data.pageCountStart, ip, 0)
      pagesEnd == OrElse(data.pageCountEnd, ip, 0)
      uptime == OrElse(data.uptimeMinutes, ip, 0)
      total == OrElse(data.totalMinutes, ip, 1)
  IN  [pagesPrinted |-> pagesEnd - pagesStart,
       totalPages |-> pagesEnd,
       uptimePercent |-> Round(uptime * 100, total),
       supplyLevels |-> IF ip \in DOMAIN data.supplyLevels
                        THEN data.supplyLevels[ip] ELSE <<>>]

\* Page counters that move during a day; a device that does not answer is
\* sampled with totalPages 0.
DailyOutcomes(ip) ==
  IF ip = "10.0.0.2" THEN {Unreachable}
  ELSE {Unreachable, Answer(100, 25, 50), Answer(105, 25, 50)}

NextDaily ==
  \/ Tick(MaxRecords - 1)
  \/ recordSnapshot
  \/ (jobs = {} /\ AutoRefresh)
  \/ \E j \in jobs : \E resp \in DailyOutcomes(j.ips[j.i]) : PollReturns(j, resp)

SpecDaily == InitQuiet /\ [][NextDaily]_vars

\* The page counts sampled for ip on day d, in recording order.
SamplesOf(d, ip) ==
  LET idx == SelectSeq([n \in DOMAIN recorded |-> n],
                       LAMBDA n : /\ Day(recorded[n].timestamp) = d
                                  /\ \E x \in DOMAIN recorded[n].printers :
                                       recorded[n].printers[x].ip = ip)
  IN  [k \in DOMAIN idx |->
         LET row == recorded[idx[k]].printers
         IN  row[CHOOSE x \in DOMAIN row : row[x].ip = ip].totalPages]

Str100 == <<"1","0","0">>
Str50 == <<"5","0">>
Str0 == <<"0">>
StrMinus3 == <<"-","3">>
StrNaN == <<"x">>
WasteToner == <<"W","a","s","t","e"," ","T","o","n","e","r">>
Tray1 == <<"T","r","a","y"," ","1">>
Drawer2 == <<"D","r","a","w","e","r"," ","2">>

RawSupplyNames ==
  { Toner, <<" ","I","n","k"," ">>, <<"1","2","3">>, <<"K","1">>,
    <<"P","a","p","e","r">>, WasteToner, <<"K","i","t">>, <<>>,
    <<" ","4","2"," ">> }
RawSupplyMaxs == {Str100, Str0, StrNaN}
RawSupplyCurrents == {Str50, StrMinus3, StrNaN}

RawTrayNames ==
  { Tray1, <<" ","t","r","a","y"," ","1"," ">>,
    <<"C","a","s","s","e","t","t","e">>, <<"O","u","t","p","u","t">>,
    <<"1","2","3">>, <<"1",".","5">>, <<"M","P","T">>,
    <<"T","r","a","y","\t","2">>, <<>>, <<"m","p">> }
RawTrayMaxs == {<<"5","0","0">>, <<"-","2">>, StrNaN}
RawTrayCurrents == {Str100, Str0, StrMinus3}
\* <<status, media name>> of a row
RawTrayExtras == { <<<<"3">>, <<"A","4">>>>, <<<<"9">>, <<"-","1">>>> }

\* The row that follows name in a tray walk: the drawer after a name
\* without a keyword, "Tray 1" after any other.
Companion(name) == IF isTray(trim(toLowerCase(name))) THEN Tray1 ELSE Drawer2

\* Two supply rows, the second one a drum every filter lets through, and
\* two tray rows.
SupplyAnswers ==
  { RawAnswer(<<n, Drum>>, <<m, Str100>>, <<c, Str50>>,
              <<Tray1>>, <<Str100>>, <<Str50>>, <<<<"1">>>>, <<>>) :
      n \in RawSupplyNames, m \in RawSupplyMaxs, c \in RawSupplyCurrents }
TrayAnswers ==
  { RawAnswer(<<Toner>>, <<Str100>>, <<Str50>>,
              <<r[1], Companion(r[1])>>, <<r[2], Str100>>, <<r[3]>>, <<r[4][1]>>, <<r[4][2]>>) :
      r \in RawTrayNames \X RawTrayMaxs \X RawTrayCurrents \X RawTrayExtras }
RawOutcomes(ip) ==
  IF ip = "10.0.0.2" THEN {Unreachable} ELSE SupplyAnswers \cup TrayAnswers

NextParse ==
  \/ Tick(MaxTime)
  \/ (jobs = {} /\ AutoRefresh)
  \/ \E j \in jobs : \E resp \in RawOutcomes(j.ips[j.i]) : PollReturns(j, resp)

SpecParse == InitQuiet /\ [][NextParse]_vars

SupplyTypes == {"toner", "drum", "fuser", "transfer", "maintenance", "waste"}

\* C12: every supply stored in a snapshot poll produced has a trimmed name
\* of at least 3 characters that is not all digits, max > 0, an integer
\* current level and one of the six recognised types; hence no raw row that
\* fails validation or classifies as "other" is stored.
C12_StoredSuppliesAreValid ==
  \A i \in DOMAIN printers : \A k \in DOMAIN printers[i].supplies :
    LET sup == printers[i].supplies[k]
    IN  /\ sup.name = trim(sup.name)
        /\ Len(sup.name) >= 3
        /\ ~AllDigits(sup.name)
        /\ sup.current \in Int
        /\ sup.max > 0
        /\ sup.type \in SupplyTypes

\* A poll was given two raw supply rows and stored one of them.
C12_Witness ==
  \E i \in DOMAIN printers :
    /\ printers[i].lastUpdate > 0
    /\ Len(printers[i].supplies) = 1
    /\ printers[i].supplies[1].name = Drum

\* C13: every tray stored in a snapshot poll produced has a name that
\* contains a tray keyword, whatever the row's capacity, level or status.
C13_StoredTraysNameATray ==
  \A i \in DOMAIN printers : \A k \in DOMAIN printers[i].trays :
    \E kw \in trayKeywords :
      includes(toLowerCase(printers[i].trays[k].name), kw)

\* A poll was given a keyword-less row and the drawer row, and stored the
\* drawer alone.
C13_Witness ==
  \E i \in DOMAIN printers :
    /\ printers[i].lastUpdate > 0
    /\ Len(printers[i].trays) = 1
    /\ printers[i].trays[1].name = Drawer2

\* ------------------------------------------------------------ notifications
\* The mail of outbox entry k is accepted or refused by the SMTP server:
\* sendEmailNotification resumes after `await transporter.sendMail`.
EmailSettles(k, ok) ==
  /\ k \in DOMAIN outbox
  /\ outbox[k].email = "sending"
  /\ outbox' = [outbox EXCEPT ![k].email = IF ok THEN "sent" ELSE "failed"]
  /\ UNCHANGED <<now, printers, config, jobs, lastRefresh, ops, scanVars,
                 histVars, alertCooldown, offlineTimestamps, alertHistory,
                 fireLog, dispatched>>

\* The posts of outbox entry k return or fail: sendWebhookNotification
\* resumes after `await fetch`.
WebhookSettles(k, ok) ==
  /\ k \in DOMAIN outbox
  /\ outbox[k].webhook = "posting"
  /\ outbox' = [outbox EXCEPT ![k].webhook = IF ok THEN "posted" ELSE "failed"]
  /\ UNCHANGED <<now, printers, config, jobs, lastRefresh, ops, scanVars,
                 histVars, alertCooldown, offlineTimestamps, alertHistory,
                 fireLog, dispatched>>

\* Every channel state and schedule policy; the window is 00:00-00:01 or
\* 00:01-00:01 of a Thursday, the days are the working days or the weekend.
NotifyConfigs ==
  [enabled : {TRUE}, lowSupplyThreshold : {20}, criticalSupplyThreshold : {10},
   offlineMinutes : {1}, cooldownHours : {1},
   email : {"off", "no-host", "on"}, webhooks : {0, 1},
   notifySchedule : {"always", "business-hours", "scheduled"},
   notifyTime : {0, 1}, notifyEndTime : {1},
   notifyDays : {WorkDays, {0, 6}}]

InitNotify == InitWith(savedPrinters, NotifyConfigs)

\* The toner of the first printer, fine when the run starts, is low or
\* critical.
NotifyAnswers(ip) ==
  IF ip = "10.0.0.2" THEN {Answer(100, 25, 50)}
  ELSE {Answer(100, 15, 50), Answer(100, 8, 50)}

NextNotify ==
  \/ Tick(MaxTime)
  \/ (jobs = {} /\ AutoRefresh)
  \/ \E j \in jobs : \E resp \in NotifyAnswers(j.ips[j.i]) : PollReturns(j, resp)
  \/ \E k \in DOMAIN outbox : \E ok \in BOOLEAN : EmailSettles(k, ok)
  \/ \E k \in DOMAIN outbox : \E ok \in BOOLEAN : WebhookSettles(k, ok)

SpecNotify == InitNotify /\ [][NextNotify]_vars

\* The stored alert outbox entry o is about.
StoredFor(o) ==
  /\ o.stored \in DOMAIN alertHistory
  /\ CooldownKey(alertHistory[o.stored].type, alertHistory[o.stored].printerIp,
                 alertHistory[o.stored].supplyName) = o.key
  /\ alertHistory[o.stored].timestamp = o.t

C20_OutsideWindowNoChannel ==
  \A k \in DOMAIN outbox :
    IF isWithinNotificationSchedule(outbox[k].t, config)
    THEN config.notifySchedule = "always" => outbox[k].email # "skipped"
    ELSE /\ outbox[k].email \in {"disabled", "skipped"}
         /\ outbox[k].webhook = "none"

\* ----------------------------------------------------------------- settings
\* POST /api/settings with an alerts object:
\* config.alerts = { ...config.alerts, ...updates.alerts }
UpdateSettings(updates) ==
  /\ Served
  /\ config' = [f \in DOMAIN config |->
                  IF f \in DOMAIN updates THEN updates[f] ELSE config[f]]
  /\ UNCHANGED <<now, printers, jobs, engineVars, scanVars, histVars,
                 lastRefresh>>

\* The alerts objects a client posts: one or two of the four values, small
\* ones and 0 among them.
SettingsUpdates ==
  { [cooldownHours |-> 0], [cooldownHours |-> 1],
    [offlineMinutes |-> 0], [offlineMinutes |-> 2],
    [criticalSupplyThreshold |-> 0],
    [lowSupplyThreshold |-> 30, criticalSupplyThreshold |-> 20] }

NextSettings ==
  \/ Tick(MaxTime)
  \/ (jobs = {} /\ AutoRefresh)
  \/ \E j \in jobs : \E resp \in PollAnswers : PollReturns(j, resp)
  \/ \E updates \in SettingsUpdates : UpdateSettings(updates)

SpecSettings == InitSaved /\ [][NextSettings]_vars

\* C15: every evaluation decides with exactly the values the configuration
\* holds when it runs, whatever was posted, 0 included: an alert is created
\* for a key iff the key's condition holds with the configured thresholds
\* and offline minutes and no alert of the key was created less than the
\* configured cooldown ago.
C15_EvaluationUsesConfiguredValues ==
  [][EvalStep =>
       \A k \in ClaimKeys :
         FiredNow(k) <=>
           /\ Attempted(k)
           /\ ~(k \in DOMAIN alertCooldown
                /\ now - alertCooldown[k] < config.cooldownHours)]_vars

\* ------------------------------------------------------ alert history limit
\* data/alert-history.json as earlier runs left it: n acknowledged alerts,
\* oldest first, their ids the (negative) times before this start.
SavedAlerts(n) ==
  [i \in 1..n |->
     [id |-> i - n - 1, type |-> "offline", printerIp |-> "10.0.0.2",
      supplyName |-> <<>>, details |-> NoDetails, timestamp |-> i - n - 1,
      acknowledged |-> TRUE]]

StoreConfigs ==
  [enabled : {TRUE}, lowSupplyThreshold : {20}, criticalSupplyThreshold : {10},
   offlineMinutes : {1}, cooldownHours : {1},
   email : {"off"}, webhooks : {0}, notifySchedule : {"always"},
   notifyTime : {MorningStart}, notifyEndTime : {EveningEnd},
   notifyDays : {WorkDays}]

\* A history that is nearly empty, one short of the limit, or full.
InitStore ==
  InitFrom(savedPrinters, StoreConfigs,
           {SavedAlerts(1), SavedAlerts(AlertHistoryLimit - 1),
            SavedAlerts(AlertHistoryLimit)})

\* The second printer is fine; the first has critical toner and low ink.
StoreAnswers(ip) ==
  IF ip = "10.0.0.2" THEN {Answer(100, 25, 50)} ELSE {Answer(100, 8, 15)}

\* The ids a client names: of the oldest alert, of the newest, of none.
EndIds ==
  {alertHistory[i].id : i \in DOMAIN alertHistory \cap {1, Len(alertHistory)}}
    \cup {NoSuchId - AlertHistoryLimit}

NextStore ==
  \/ Tick(MaxTime)
  \/ (jobs = {} /\ AutoRefresh)
  \/ \E j \in jobs : \E resp \in StoreAnswers(j.ips[j.i]) : PollReturns(j, resp)
  \/ \E id \in EndIds : Acknowledge(id)
  \/ \E id \in EndIds : DeleteAlert(id)
  \/ ClearAlerts

SpecStore == InitStore /\ [][NextStore]_vars

\* The fires of the step, in order.
FiresNow == {m \in NewEntries : fireLog'[m].ev = "fire"}

\* The alert object triggerAlert hands to storage.addAlert in a fire.
AlertOf(entry) ==
  [type |-> entry.key[2], printerIp |-> entry.key[1],
   supplyName |-> IF Len(entry.key) = 3 THEN entry.key[3] ELSE <<>>,
   details |-> entry.details]

\* C16: the stored history never holds more than 1000 alerts; a step that
\* adds alerts to a history that overflows drops the oldest ones and keeps
\* the added ones at the end, the last of them being what addAlert
\* returned.
C16_HistoryCappedNewestKept ==
  [][ /\ Len(alertHistory') <= AlertHistoryLimit
      /\ EvalStep =>
           LET added == Cardinality(FiresNow)
               drop == Len(alertHistory) + added - Len(alertHistory')
           IN  /\ Len(alertHistory') =
                    Min({Len(alertHistory) + added, AlertHistoryLimit})
               /\ \A i \in 1..(Len(alertHistory') - added) :
                    alertHistory'[i] = alertHistory[i + drop]
               /\ \A i \in (Len(alertHistory') - added + 1)..Len(alertHistory') :
                    /\ alertHistory'[i].timestamp = now
                    /\ ~alertHistory'[i].acknowledged
               /\ added > 0 =>
                    \E m \in FiresNow :
                      /\ \A x \in FiresNow : x <= m
                      /\ addAlertReturned(alertHistory, AlertOf(fireLog'[m]), now)
                           = alertHistory'[Len(alertHistory')] ]_vars

\* The history was full, two alerts were added, the two oldest are gone.
C16_Witness ==
  /\ Len(alertHistory) = AlertHistoryLimit
  /\ alertHistory[1].id = 3 - AlertHistoryLimit - 1
  /\ alertHistory[AlertHistoryLimit].timestamp > 0

\* --------------------------------------------------------- repeated outages
\* The second printer goes off and comes back, more than once; the first
\* one is fine throughout.
BounceAnswers(ip) ==
  IF ip = "10.0.0.1" THEN {Answer(100, 25, 50)}
  ELSE {Unreachable, Answer(100, 25, 50)}

NextBounce ==
  \/ Tick(MaxBounceTime)
  \/ (jobs = {} /\ AutoRefresh)
  \/ \E j \in jobs : \E resp \in BounceAnswers(j.ips[j.i]) : PollReturns(j, resp)

SpecBounce == InitOutage /\ [][NextBounce]_vars

\* C17: an evaluation that sees a device online while an offline timer
\* exists for it creates a back-online event whose downtime is now - timer
\* start and deletes the timer; no cooldown suppresses the creation, not
\* that of the offline key and not that of the back-online key itself.
C17_RecoveryAlwaysCreatesBackOnline ==
  [][EvalStep =>
       \A m \in DOMAIN printers' :
         LET ip == printers'[m].ip
         IN  (~IsOffline(printers'[m]) /\ ip \in DOMAIN offlineTimestamps) =>
               /\ \E n \in NewEntries :
                    /\ fireLog'[n].ev = "fire"
                    /\ fireLog'[n].key = <<ip, "back-online">>
                    /\ fireLog'[n].details.downtime
                         = DowntimeStr(now - offlineTimestamps[ip])
               /\ ip \notin DOMAIN offlineTimestamps']_vars

\* C18: the offline timer of a device is started by the first evaluation
\* that sees it not online and keeps its start value, through later
\* evaluations and offline fires, until an evaluation sees the device
\* online; an offline event is created only by an evaluation that sees the
\* device not online at least offlineMinutes after the timer's start.
C18_TimerStartedOnceFiresAfterThreshold ==
  [][ IF EvalStep
      THEN \A m \in DOMAIN printers' :
             LET ip == printers'[m].ip
                 down == IsOffline(printers'[m])
             IN  /\ (down /\ ip \notin DOMAIN offlineTimestamps) =>
                      (ip \in DOMAIN offlineTimestamps'
                       /\ offlineTimestamps'[ip] = now)
                 /\ (down /\ ip \in DOMAIN offlineTimestamps) =>
                      (ip \in DOMAIN offlineTimestamps'
                       /\ offlineTimestamps'[ip] = offlineTimestamps[ip])
                 /\ FiredNow(<<ip, "offline">>) =>
                      (down /\ now - offlineTimestamps'[ip] >= config.offlineMinutes)
      ELSE offlineTimestamps' = offlineTimestamps ]_vars

\* An offline event was created by an evaluation later than the one that
\* started the timer, and the timer still holds its start.
C18_Witness ==
  \E m \in DOMAIN fireLog :
    /\ fireLog[m].ev = "fire" /\ fireLog[m].key = <<"10.0.0.1", "offline">>
    /\ "10.0.0.1" \in DOMAIN offlineTimestamps
    /\ offlineTimestamps["10.0.0.1"] < fireLog[m].t
    /\ now > fireLog[m].t

\* --------------------------------------------------------- supply thresholds
BlackInk == <<"B","l","a","c","k"," ","I","N","K">>
TonerDrum == <<"T","o","n","e","r"," ","D","r","u","m">>
FuserToner == <<"F","u","s","e","r"," ","T","o","n","e","r">>

\* One supply row of capacity 100: a name and a level around the
\* thresholds 10 and 20, 0 and the SNMP value -3 among them.
LevelAnswers ==
  { [Answer(100, 25, 50) EXCEPT !.supplyNames = <<n>>, !.supplyCurrent = <<c>>] :
      n \in {Toner, BlackInk, TonerDrum, FuserToner},
      c \in {-3, 0, 9, 10, 19, 20} }

LevelOutcomes(ip) ==
  IF ip = "10.0.0.2" THEN {Answer(100, 25, 50)} ELSE LevelAnswers

NextLevel ==
  \/ Tick(MaxTime)
  \/ (jobs = {} /\ AutoRefresh)
  \/ \E j \in jobs : \E resp \in LevelOutcomes(j.ips[j.i]) : PollReturns(j, resp)

SpecLevel == InitSaved /\ [][NextLevel]_vars

\* The evaluation of the step creates an alert of this type for the supply,
\* or the key is cooling down and nothing can be told.
Creates(type, ip, name) ==
  LET k == <<ip, type, name>>
  IN  FiredNow(k) \/ (k \in DOMAIN alertCooldown
                      /\ now - alertCooldown[k] < config.cooldownHours)

\* C19: in an evaluation of an online device a supply is considered only
\* if its lower-cased name contains "toner" or "ink" and neither "drum" nor
\* "fuser"; with p = round(current / max * 100), a considered supply gets
\* critical-supply iff 0 <= p < critical, low-supply iff critical <= p < low,
\* and nothing for any other p (negative p too); never both.
C19_SupplyClassification ==
  [][EvalStep =>
       \A m \in DOMAIN printers' : \A x \in DOMAIN printers'[m].supplies :
         LET ip == printers'[m].ip
             sup == printers'[m].supplies[x]
             lower == toLowerCase(sup.name)
             considered ==
               /\ ~IsOffline(printers'[m])
               /\ includes(lower, <<"t","o","n","e","r">>)
                    \/ includes(lower, <<"i","n","k">>)
               /\ ~includes(lower, <<"d","r","u","m">>)
               /\ ~includes(lower, <<"f","u","s","e","r">>)
             p == Round(sup.current * 100, sup.max)
             crit == considered /\ 0 <= p /\ p < config.criticalSupplyThreshold
             low == considered /\ config.criticalSupplyThreshold <= p
                    /\ p < config.lowSupplyThreshold
         IN  /\ FiredNow(<<ip, "critical-supply", sup.name>>) => crit
             /\ FiredNow(<<ip, "low-supply", sup.name>>) => low
             /\ crit => Creates("critical-supply", ip, sup.name)
             /\ low => Creates("low-supply", ip, sup.name)
             /\ ~(FiredNow(<<ip, "critical-supply", sup.name>>)
                  /\ FiredNow(<<ip, "low-supply", sup.name>>))]_vars

\* Ink at 0% got a critical-supply alert; after it a toner drum at 9% was
\* evaluated and got none.
C19_Witness ==
  /\ \E i \in DOMAIN fireLog :
       /\ fireLog[i].ev = "fire"
       /\ fireLog[i].key = <<"10.0.0.1", "critical-supply", BlackInk>>
       /\ fireLog[i].details.percentage = 0
  /\ jobs = {}
  /\ \E m \in DOMAIN printers :
       /\ printers[m].supplies # <<>>
       /\ printers[m].supplies[1].name = TonerDrum
       /\ printers[m].supplies[1].current = 9
       /\ \E i \in DOMAIN fireLog :
            /\ fireLog[i].ev = "seen"
            /\ fireLog[i].key = <<printers[m].ip, "up">>
            /\ fireLog[i].t >= printers[m].lastUpdate
  /\ ~\E i \in DOMAIN fireLog :
        /\ fireLog[i].ev = "fire"
        /\ Len(fireLog[i].key) = 3
        /\ fireLog[i].key[3] = TonerDrum

\* ------------------------------------------------------------ acknowledge-all
\* C21: acknowledge-all has the effect of a single acknowledge on the
\* cooldown: for every alert a step marks as acknowledged, the cooldown
\* entry of the alert's key (address, type, supply name) is gone after it.
C21_AcknowledgeAllClearsCooldown ==
  [][Len(alertHistory') = Len(alertHistory) =>
       \A i \in DOMAIN alertHistory :
         (~alertHistory[i].acknowledged /\ alertHistory'[i].acknowledged) =>
           CooldownKey(alertHistory[i].type, alertHistory[i].printerIp,
                       alertHistory[i].supplyName) \notin DOMAIN alertCooldown']_vars

\* ------------------------------------------------------------ cancellation
\* C22: a scan that was in flight when cancel was called finishes the
\* batch it is in, registering what it found there, and starts no further
\* batch, whatever else happens in between (a later start request too).
C22_CancelledScanStartsNoBatch ==
  [][\A sc \in scans : sc.cancelled =>
       /\ \A nx \in scans' : nx.id = sc.id => nx.start = sc.start
       /\ (\A nx \in scans' : nx.id # sc.id) =>
            (sc.pending = <<>> \/ Tail(sc.pending) = <<>>)]_vars

\* ------------------------------------------------------- scan state machine
\* The scans with a clock; every awaited reply arrives in the end (snmpGet
\* resolves on error or timeout, queryPrinter catches what it raises).
ScanProgress ==
  \/ \E sc \in scans : \E reply \in [Answering(sc.start) -> Descs] :
        BatchReturns(sc, reply)
  \/ \E sc \in scans : \E resp \in ScanAnswers : FoundReturns(sc, resp)

NextScanTimed == NextScan \/ Tick(MaxTime)

SpecScanFair ==
  Init /\ [][NextScanTimed]_vars /\ WF_vars(ScanProgress)

\* The scan with this id is in flight.
InFlight(id) == \E sc \in scans : sc.id = id

\* C23: an accepted start request sets scanning = true; every scan that
\* started ends in the end, after the batch up to the last address or after
\* a cancel request, and the step that ends it leaves scanning = false and
\* lastScan at the time of the end.
C23_ScanReturnsToIdle ==
  /\ [][ /\ (StartScanStep /\ responses'[Len(responses')] = "started") =>
              (scanStatus'.scanning
               /\ \E nx \in scans' : nx.id = Len(responses'))
         /\ \A sc \in scans : ~InFlight(sc.id)' =>
              /\ scanStatus' = [scanning |-> FALSE, lastScan |-> now]
              /\ sc.cancelled \/ sc.start + batchSize > LastHost ]_vars
  /\ \A id \in 1..MaxScans : InFlight(id) ~> ~InFlight(id)

\* ------------------------------------------------- scans and periodic cycles
\* Discovery scans next to the periodic cycle over a registry that holds
\* both printers when the run starts.
NextMixed ==
  \/ Tick(MaxTime)
  \/ ((~\E j \in jobs : j.kind = "cycle") /\ AutoRefresh)
  \/ \E j \in jobs : \E resp \in ScanAnswers : PollReturns(j, resp)
  \/ StartScan
  \/ CancelScan
  \/ ScanProgress

SpecMixed == InitQuiet /\ [][NextMixed]_vars

\* The step starts a periodic cycle or commits a snapshot of one.
CycleActs ==
  \E j \in (jobs \ jobs') \cup (jobs' \ jobs) : j.kind = "cycle"

\* The step is a registry write of a scan.
ScanWrites == \E sc \in scans : sc.pending # <<>> /\ sc \notin scans'

\* C24: a periodic cycle and a scan never work on the registry during
\* overlapping intervals: no cycle starts or commits a snapshot while a scan
\* is in flight, and no scan writes to the registry while a cycle is in
\* flight.
C24_CycleAndScanExclusive ==
  [][ /\ CycleActs => scans = {}
      /\ ScanWrites => ~\E j \in jobs : j.kind = "cycle" ]_vars

\* ------------------------------------------------------------------ removal
\* C25: a removed address stays out of the registry until an addDevice (or
\* a scan, of which these runs have none) registers it again: the only step
\* that makes an absent address present is the commit of an addDevice; a
\* periodic cycle, refreshAll or refreshOne in flight does not re-insert it.
C25_RemovalIsNotLost ==
  [][\A ip \in Addrs :
       (~Has(printers, ip) /\ Has(printers', ip)) =>
         \E j \in jobs : PollStep(j) /\ PolledIp(j) = ip /\ j.kind = "add"]_vars

\* ------------------------------------------------------- cycle, then alerts
\* The periodic cycle next to one manual refresh, alerts switched on.
NextCycle ==
  \/ Tick(MaxTime)
  \/ ((~\E j \in jobs : j.kind = "cycle") /\ AutoRefresh)
  \/ \E j \in jobs : \E resp \in ScanAnswers : PollReturns(j, resp)
  \/ \E ip \in Addrs : RefreshOne(ip)

SpecCycle == InitOutage /\ [][NextCycle]_vars

\* Log entries of this step in which checkPrinter looked at the device at ip.
SeenNow(ip) ==
  {m \in NewEntries : fireLog'[m].ev = "seen" /\ fireLog'[m].key[1] = ip}

\* The step ends cycle j: its last poll returns and checkAlerts() runs.
CycleEnds(j) == j.kind = "cycle" /\ PollStep(j) /\ j.i = Len(j.ips)

\* C26: a periodic cycle is followed by exactly one alert evaluation, begun
\* only after the cycle has replaced the snapshot of each of its devices,
\* and the evaluation looks at each device once, in the state the cycle's
\* own snapshot of it has; no other step evaluates.
C26_EvaluationAfterCycleOnItsSnapshots ==
  [][/\ \A j \in jobs : CycleEnds(j) =>
          LET all == Append(j.wrote, Get(printers', PolledIp(j)))
          IN  /\ Len(all) = Len(j.ips)
              /\ \A k \in DOMAIN j.ips :
                   /\ all[k].ip = j.ips[k]
                   /\ Cardinality(SeenNow(j.ips[k])) = 1
                   /\ \A m \in SeenNow(j.ips[k]) :
                        fireLog'[m].key[2] =
                          (IF IsOffline(all[k]) THEN "down" ELSE "up")
     /\ (\E ip \in Addrs : SeenNow(ip) # {}) => \E j \in jobs : CycleEnds(j)]_vars

\* ---------------------------------------------------------- uptime counters
\* The recorder next to the periodic cycle and one removal: devices go
\* online and offline between passes, and one may leave the registry.
UptimeOutcomes(ip) ==
  IF ip = "10.0.0.2" THEN {Unreachable} ELSE {Unreachable, Answer(100, 25, 50)}

NextUptime ==
  \/ Tick(MaxTime)
  \/ recordSnapshot
  \/ (jobs = {} /\ AutoRefresh)
  \/ \E j \in jobs : \E resp \in UptimeOutcomes(j.ips[j.i]) : PollReturns(j, resp)
  \/ RemoveDevice("10.0.0.2")

SpecUptime == InitQuiet /\ [][NextUptime]_vars

\* The passes of day d that sampled the device at ip, and those of them
\* that found it online.
PassesOf(d, ip) ==
  {n \in DOMAIN recorded :
     /\ Day(recorded[n].timestamp) = d
     /\ \E x \in DOMAIN recorded[n].printers : recorded[n].printers[x].ip = ip}
OnlinePassesOf(d, ip) ==
  {n \in PassesOf(d, ip) :
     \E x \in DOMAIN recorded[n].printers :
       recorded[n].printers[x].ip = ip /\ recorded[n].printers[x].online}

\* C27: for every date and device the day's total-sample counter is the
\* number of passes of that day that found the device registered, the
\* online-sample counter is the number of those that found it online, and
\* 0 <= online samples <= total samples.
C27_SampleCountersCountPasses ==
  \A d \in DOMAIN daily : \A ip \in Addrs :
    IF PassesOf(d, ip) = {}
    THEN ip \notin DOMAIN daily[d].totalMinutes
    ELSE /\ daily[d].totalMinutes[ip] = Cardinality(PassesOf(d, ip))
         /\ daily[d].uptimeMinutes[ip] = Cardinality(OnlinePassesOf(d, ip))
         /\ 0 <= daily[d].uptimeMinutes[ip]
         /\ daily[d].uptimeMinutes[ip] <= daily[d].totalMinutes[ip]

\* C27 witness: three passes sampled the first device, which was online in
\* two of them, while the second device had left the registry after the
\* first pass.
C27_Witness ==
  /\ 0 \in DOMAIN daily
  /\ "10.0.0.1" \in DOMAIN daily[0].totalMinutes
  /\ daily[0].totalMinutes["10.0.0.1"] = 3
  /\ daily[0].uptimeMinutes["10.0.0.1"] = 2
  /\ "10.0.0.2" \in DOMAIN daily[0].totalMinutes
  /\ daily[0].totalMinutes["10.0.0.2"] = 1
  /\ Len(recorded) = 3

\* ---------------------------------------------------------------- retention
\* The days a run follows.
MaxDay == 62

\* One device is registered at start-up.
InitSolo == InitWith(<<savedPrinters[1]>>, QuietConfigs)

\* d days go by between two passes the run looks at: the host was suspended
\* and its timers did not fire, or every pass in between found the registry
\* empty and returned at once.
DaysPass(d) ==
  /\ Day(now) + d <= MaxDay
  /\ now' = now + d * MinutesPerDay
  /\ UNCHANGED <<printers, jobs, config, engineVars, scanVars, histVars,
                 lastRefresh, ops>>

NextRetention ==
  \/ \E d \in {RetentionDays, RetentionDays + 1} : DaysPass(d)
  \/ recordSnapshot
  \/ \E ip \in Addrs : RemoveDevice(ip)

SpecRetention == InitSolo /\ [][NextRetention]_vars

\* The step is a pass of the recorder.
PassStep == passTime' # passTime

\* The dates of the 30-day window that ends on the day of t.
InWindow(d, t) == d >= Day(t) - RetentionDays

\* C28: at the end of every recording pass the daily map has no key dated
\* more than 30 days before the recorder's current date, and the pass has
\* deleted no key that lies inside the 30-day window.
C28_PassLeavesTheWindowOnly ==
  [][PassStep =>
       /\ \A d \in DOMAIN daily' : InWindow(d, now)
       /\ \A d \in DOMAIN daily : InWindow(d, now) => d \in DOMAIN daily']_vars

\* The same for the passes that find a device registered.
RecordingPassLeavesTheWindowOnly ==
  [][(PassStep /\ Len(printers) > 0) =>
       /\ \A d \in DOMAIN daily' : InWindow(d, now)
       /\ \A d \in DOMAIN daily : InWindow(d, now) => d \in DOMAIN daily']_vars

\* --------------------------------------------------------------- tray rows
\* Two tray rows: the same tray twice, two trays, or an output bin and a
\* tray; the level walk answers for the first row only.
TrayRowNames ==
  { << <<" ","t","r","a","y"," ","1"," ">>, Tray1 >>, <<Tray1, Drawer2>>,
    << <<"O","u","t","p","u","t">>, Tray1 >> }
TrayRowLevels ==
  {Str100, Str0, <<"-","1">>, <<"-","2">>, StrMinus3, StrNaN}
TrayRowAnswers ==
  { RawAnswer(<<Toner>>, <<Str100>>, <<Str50>>,
              names, << <<"5","0","0">>, Str100 >>, <<level>>,
              << <<"3">>, <<"3">> >>, <<>>) :
      names \in TrayRowNames, level \in TrayRowLevels }
TrayRowOutcomes(ip) ==
  IF ip = "10.0.0.2" THEN {Unreachable} ELSE TrayRowAnswers

NextTray ==
  \/ Tick(MaxTime)
  \/ (jobs = {} /\ AutoRefresh)
  \/ \E j \in jobs : \E resp \in TrayRowOutcomes(j.ips[j.i]) : PollReturns(j, resp)

SpecTray == InitQuiet /\ [][NextTray]_vars

\* A tray name as the duplicate test compares it.
TrayId(name) == toLowerCase(trim(name))

\* Row i of the tray walks of resp passes the name filters.
ValidTrayRow(resp, i) ==
  LET name == resp.trayNames[i]
  IN  /\ Len(trim(name)) >= 3 /\ ~IsDecimal(trim(name))
      /\ ~HasControlChar(name)
      /\ \E kw \in trayKeywords : includes(TrayId(name), kw)

\* Row i of resp is a valid row whose name compares equal to name.
RowNamed(resp, i, name) ==
  TrayId(resp.trayNames[i]) = TrayId(name) /\ ValidTrayRow(resp, i)

\* The tray that row i of resp makes.
TrayOfRow(resp, i) ==
  TrayOf(resp.trayNames[i], At(resp.trayMax, i, <<"-","1">>),
         At(resp.trayCurrent, i, <<"-","1">>),
         At(resp.trayStatus, i, <<"0">>), At(resp.trayMedia, i, <<>>))

\* Row i of resp is the first valid row of the name of tray.
FirstRowOf(resp, i, tray) ==
  /\ RowNamed(resp, i, tray.name)
  /\ \A h \in 1..(i - 1) : ~RowNamed(resp, h, tray.name)

\* The step commits what queryPrinter made of the SNMP answer resp.
Committed(j, resp) ==
  /\ PollStep(j)
  /\ resp.kind = "raw"
  /\ Has(printers', PolledIp(j))
  /\ Get(printers', PolledIp(j)) = queryPrinter(PolledIp(j), resp, j.t0)

\* C29: within one snapshot no two trays have names that are equal after
\* trimming and lower-casing, and among the valid raw rows that share a
\* name the stored tray is built from the first in table order.
C29_OneTrayPerNameFromFirstRow ==
  [][\A j \in jobs : \A resp \in TrayRowOutcomes(j.ips[j.i]) :
       Committed(j, resp) =>
         LET trays == Get(printers', PolledIp(j)).trays
         IN  /\ \A k, l \in DOMAIN trays :
                  TrayId(trays[k].name) = TrayId(trays[l].name) => k = l
             /\ \A k \in DOMAIN trays : \E i \in DOMAIN resp.trayNames :
                  FirstRowOf(resp, i, trays[k]) /\ trays[k] = TrayOfRow(resp, i)]_vars

\* C29 witness: a poll was given " tray 1 " with a capacity of 500 and then
\* "Tray 1" with a capacity of 100, and stored one tray, of capacity 500.
C29_Witness ==
  \E i \in DOMAIN printers :
    /\ printers[i].lastUpdate > 0
    /\ Len(printers[i].trays) = 1
    /\ printers[i].trays[1].name = <<"t","r","a","y"," ","1">>
    /\ printers[i].trays[1].maxCapacity = 500

\* C30: the stored current level of a tray follows the raw level of its
\* row: a positive n gives currentLevel n and no capacity status; -1 and -3
\* give no level and has-paper; 0 gives no level and empty; any other
\* negative, a non-numeric or a missing level gives neither.
C30_TrayLevelMapping ==
  [][\A j \in jobs : \A resp \in TrayRowOutcomes(j.ips[j.i]) :
       Committed(j, resp) =>
         LET trays == Get(printers', PolledIp(j)).trays
         IN  \A k \in DOMAIN trays : \A i \in DOMAIN resp.trayNames :
               FirstRowOf(resp, i, trays[k]) =>
                 LET missing == i > Len(resp.trayCurrent)
                     raw == IF missing THEN <<>> ELSE parseInt(resp.trayCurrent[i])
                 IN  IF raw # <<>> /\ raw[1] > 0
                     THEN /\ trays[k].currentLevel = raw[1]
                          /\ trays[k].capacityStatus = "null"
                     ELSE IF raw # <<>> /\ raw[1] \in {-1, -3}
                     THEN /\ trays[k].currentLevel = -1
                          /\ trays[k].capacityStatus = "has-paper"
                     ELSE IF raw # <<>> /\ raw[1] = 0
                     THEN /\ trays[k].currentLevel = -1
                          /\ trays[k].capacityStatus = "empty"
                     ELSE /\ trays[k].currentLevel = -1
                          /\ trays[k].capacityStatus = "null"]_vars

\* ------------------------------------------------------------ OID by OID
\* What a device may answer to the GETs of one poll.
Serial1 == <<"S","1">>
Serial2 == <<"S","2">>
Serial3 == <<"S","3">>
ProbeDescs == {Null, <<>>, DescHP}
ProbeSerials ==
  { <<Serial1, Null, Null>>, <<Null, <<>>, Serial3>>, << <<>>, Serial2, Serial3>>,
    <<Null, Null, Null>> }
ProbeStatuses ==
  { << <<"3">>, <<"4">> >>, <<Null, <<"4">> >>, << <<"i","d","l","e">>, <<"4">> >>,
    << <<>>, StrNaN>>, <<Null, Null>> }
ProbePages ==
  { <<Null, Null, Null, Null, Null, Null, Null>>,
    <<Str100, Null, Null, Null, Null, Null, Null>>,
    <<StrNaN, Str50, Null, Null, Null, Null, Null>>,
    <<Null, <<>>, StrNaN, Null, Null, Null, <<"3","0","0">> >> }

\* The position of an OID in a field's list (0: not in it).
IndexOf(oids, o) ==
  IF \E i \in DOMAIN oids : oids[i] = o
  THEN CHOOSE i \in DOMAIN oids : oids[i] = o ELSE 0

GetOids ==
  {"description"} \cup {serialOids[i] : i \in DOMAIN serialOids}
    \cup {statusOids[i] : i \in DOMAIN statusOids}
    \cup {pagesOids[i] : i \in DOMAIN pagesOids}
    \cup {networkOids[i] : i \in DOMAIN networkOids}

ProbeAnswer(desc, serials, statuses, pages, raises) ==
  [kind |-> "probe", raises |-> raises,
   get |-> [o \in GetOids |->
              IF o = "description" THEN desc
              ELSE IF IndexOf(serialOids, o) > 0 THEN serials[IndexOf(serialOids, o)]
              ELSE IF IndexOf(statusOids, o) > 0 THEN statuses[IndexOf(statusOids, o)]
              ELSE IF IndexOf(pagesOids, o) > 0 THEN pages[IndexOf(pagesOids, o)]
              ELSE Null]]

ProbeOutcomes(ip) ==
  IF ip = "10.0.0.2"
  THEN { ProbeAnswer(Null, <<Null, Null, Null>>, <<Null, Null>>,
                     <<Null, Null, Null, Null, Null, Null, Null>>, FALSE) }
  ELSE { ProbeAnswer(d, s, st, pg, r) :
           d \in ProbeDescs, s \in ProbeSerials, st \in ProbeStatuses,
           pg \in ProbePages, r \in BOOLEAN }

NextProbe ==
  \/ Tick(MaxTime)
  \/ (jobs = {} /\ AutoRefresh)
  \/ \E j \in jobs : \E resp \in ProbeOutcomes(j.ips[j.i]) : PollReturns(j, resp)

SpecProbe == InitQuiet /\ [][NextProbe]_vars

\* C31: a poll asks for the description before anything else; when there
\* is none (no value, or an empty one) it asks nothing else and the
\* snapshot is offline; when there is one the snapshot has online = true
\* whatever the other queries gave.
C31_DescriptionAloneDecides ==
  [][\A j \in jobs : PollStep(j) =>
       LET snap == Get(printers', PolledIp(j))
       IN  /\ asked' # <<>>
           /\ asked'[1].oid = "description"
           /\ \A k \in 2..Len(asked') : asked'[k].oid # "description"
           /\ IF asked'[1].value \in {Null, <<>>}
              THEN /\ Len(asked') = 1
                   /\ ~snap.online
                   /\ snap.status = "offline"
              ELSE snap.online]_vars

\* C31 witness: the first device gave its description and the poll failed
\* at a later query (online, status offline); the second gave none and was
\* asked for nothing else.
C31_Witness ==
  /\ asked = <<[oid |-> "description", value |-> Null]>>
  /\ Len(printers) = 2
  /\ printers[1].lastUpdate > 0 /\ printers[1].online
  /\ printers[1].status = "offline"
  /\ printers[2].lastUpdate > 0 /\ ~printers[2].online
  /\ printers[2].status = "offline"

\* The GETs the last poll made for the OIDs of one field, in order.
AskedOf(log, oids) == SelectSeq(log, LAMBDA e : IndexOf(oids, e.oid) > 0)

\* A syntactically valid response: a non-empty string for the serial, an
\* integer for the status and the page count.
ValidFor(field, v) ==
  IF field = "serial" THEN v # Null /\ v # <<>>
  ELSE v # Null /\ IsSignedDigits(v)

\* The candidates of a field were tried in their order, each one after an
\* invalid or missing response only, up to the first valid response or the
\* end of the list.
TriedInOrder(log, field, oids) ==
  LET tried == AskedOf(log, oids)
  IN  /\ tried # <<>> /\ Len(tried) <= Len(oids)
      /\ \A k \in DOMAIN tried : tried[k].oid = oids[k]
      /\ \A k \in 1..(Len(tried) - 1) : ~ValidFor(field, tried[k].value)
      /\ ~ValidFor(field, Last(tried).value) => Len(tried) = Len(oids)

\* The value the field should have: the valid response the tries ended on,
\* or none.
Resolved(log, field, oids) ==
  LET tried == AskedOf(log, oids)
  IN  IF ValidFor(field, Last(tried).value) THEN <<Last(tried).value>> ELSE <<>>

SerialResolved(log, snap) ==
  /\ TriedInOrder(log, "serial", serialOids)
  /\ snap.serial = (IF Resolved(log, "serial", serialOids) = <<>> THEN <<>>
                    ELSE Resolved(log, "serial", serialOids)[1])
PagesResolved(log, snap) ==
  /\ TriedInOrder(log, "pages", pagesOids)
  /\ snap.totalPages = (IF Resolved(log, "pages", pagesOids) = <<>> THEN 0
                        ELSE parseInt(Resolved(log, "pages", pagesOids)[1])[1])
StatusResolved(log, snap) ==
  /\ TriedInOrder(log, "status", statusOids)
  /\ Last(log).value # Raised =>
       snap.status = (IF Resolved(log, "status", statusOids) = <<>> THEN "unknown"
                      ELSE DeviceStatus(parseInt(Resolved(log, "status", statusOids)[1])[1]))

\* The step is a poll of j that got a description.
Described(j) == PollStep(j) /\ Len(asked') > 1

\* C32: for each of serial, status and total pages the poll tries the
\* field's OIDs in their fixed order, goes on to the next one whenever a
\* response is missing or invalid, and uses the first valid response; the
\* field is absent (serial null, status unknown, pages 0) only when no OID
\* gave a valid one.
C32_FirstValidCandidateWins ==
  [][\A j \in jobs : Described(j) =>
       LET snap == Get(printers', PolledIp(j))
       IN  /\ SerialResolved(asked', snap)
           /\ StatusResolved(asked', snap)
           /\ PagesResolved(asked', snap)]_vars

\* The same for the serial and the page count alone.
SerialAndPagesResolved ==
  [][\A j \in jobs : Described(j) =>
       LET snap == Get(printers', PolledIp(j))
       IN  SerialResolved(asked', snap) /\ PagesResolved(asked', snap)]_vars

\* ---------------------------------------------------- who writes the maps
\* Every operation next to the alert engine: the cycle with its evaluation,
\* the registry routes, a scan, the recorder, a settings update and an
\* acknowledge.  In these runs one operation is under way at a time, the
\* first device answers every poll and the second none, and a scan is
\* started after the last minute, request and recording pass the run
\* follows, with an entry in either map.
FrameUpdates == { [offlineMinutes |-> 2] }
FrameOutcomes(ip) ==
  IF ip = "10.0.0.2" THEN {Unreachable} ELSE {Answer(100, 25, 50)}
Idle == jobs = {} /\ scans = {}
AtTheEnd ==
  /\ Idle /\ now = MaxTime /\ ops = MaxOps /\ passTime = now
  /\ alertCooldown # <<>> /\ offlineTimestamps # <<>>

NextFrame ==
  \/ (Idle /\ Tick(MaxTime))
  \/ (Idle /\ AutoRefresh)
  \/ \E j \in jobs : \E resp \in FrameOutcomes(j.ips[j.i]) : PollReturns(j, resp)
  \/ (Idle /\ AddDevice("10.0.0.1"))
  \/ (Idle /\ RemoveDevice("10.0.0.2"))
  \/ (Idle /\ RefreshAll)
  \/ (Idle /\ RefreshOne("10.0.0.2"))
  \/ (Idle /\ recordSnapshot)
  \/ (Idle /\ \E updates \in FrameUpdates : UpdateSettings(updates))
  \/ (Idle /\ \E id \in AlertIds \cup {NoSuchId} : Acknowledge(id))
  \/ (AtTheEnd /\ StartScan)
  \/ (scans # {} /\ CancelScan)
  \/ \E sc \in scans : \E reply \in [Answering(sc.start) -> Descs] :
        BatchReturns(sc, reply)
  \/ \E sc \in {x \in scans : x.pending # <<>>} :
        \E resp \in FrameOutcomes(Head(sc.pending)) : FoundReturns(sc, resp)

SpecFrame == InitOutage /\ [][NextFrame]_vars

\* C33: the cooldown map and the offline-timer map change only in a step
\* that evaluates alerts or acknowledges one: polls, scans, add, remove,
\* refresh, recording passes and settings updates leave both as they are.
C33_OnlyEngineAndAcknowledgeWrite ==
  [][(alertCooldown' # alertCooldown \/ offlineTimestamps' # offlineTimestamps)
       => (EvalStep \/ AckStep)]_vars

\* C33 witness: with an entry in either map, the timed device was removed,
\* a recording pass ran and a scan ran to its end.
C33_Witness ==
  /\ alertCooldown # <<>>
  /\ "10.0.0.2" \in DOMAIN offlineTimestamps
  /\ ~Has(printers, "10.0.0.2")
  /\ passTime = now
  /\ scans = {} /\ scanStatus.lastScan = now

\* ---------------------------------------------------------------- alert ids
\* C34: no two stored alerts have the same id, so that acknowledging or
\* deleting by id reaches exactly one event.
C34_AlertIdsUnique ==
  \A m, n \in DOMAIN alertHistory :
    alertHistory[m].id = alertHistory[n].id => m = n

\* --------------------------------------------------- overlapping cycles
\* The interval timer fires every minute whether or not the cycle it
\* started before has polled its last device.
OverlapOutcomes == {Unreachable, Answer(100, 25, 50), Answer(100, 15, 15)}

NextOverlap ==
  \/ Tick(MaxTime)
  \/ AutoRefresh
  \/ \E j \in jobs : \E resp \in OverlapOutcomes : PollReturns(j, resp)

SpecOverlap == InitQuiet /\ [][NextOverlap]_vars

\* C35: at most one periodic poll cycle is in flight at any moment.
C35_OneCycleInFlight ==
  Cardinality({j \in jobs : j.kind = "cycle"}) <= 1

\* ------------------------------------------------- recovery after an outage
\* C36: a back-online event is created only when an offline event was
\* created for the device during the same outage, that is since its offline
\* timer was started; an outage shorter than the threshold gives neither.
C36_BackOnlineOnlyAfterOffline ==
  [][\A ip \in Addrs :
       FiredNow(<<ip, "back-online">>) =>
         /\ ip \in DOMAIN offlineTimestamps
         /\ \E m \in DOMAIN fireLog :
              /\ fireLog[m].ev = "fire"
              /\ fireLog[m].key = <<ip, "offline">>
              /\ fireLog[m].t >= offlineTimestamps[ip]]_vars

\* ------------------------------------------------ timers of removed devices
\* C37: every address that has an offline timer is a registered device.
C37_TimersOfRegisteredDevices ==
  \A ip \in DOMAIN offlineTimestamps : Has(printers, ip)

\* ------------------------------------------- deleting and clearing events
\* The step removes events from the stored history.
RemovalStep == Len(alertHistory') < Len(alertHistory)

\* An event of key k is in the stored history.
EventStored(hist, k) ==
  \E m \in DOMAIN hist :
    CooldownKey(hist[m].type, hist[m].printerIp, hist[m].supplyName) = k

\* C38: deleting an event and clearing the history change the stored
\* history only, the cooldown map stays as it was; and an evaluation in
\* which the condition of a key holds whose cooldown has not run out creates
\* no event for it, also when no event of that key is stored any more.
C38_RemovalKeepsCooldown ==
  [][ /\ RemovalStep =>
           UNCHANGED <<alertCooldown, offlineTimestamps, printers, config, fireLog>>
      /\ EvalStep =>
           \A k \in ClaimKeys :
             ( /\ k \in DOMAIN alertCooldown
               /\ now - alertCooldown[k] < cooldownMs(config)
               /\ ~EventStored(alertHistory, k)
               /\ Attempted(k) ) => ~FiredNow(k) /\ ~EventStored(alertHistory', k)
    ]_vars

\* C38 witness: the low-toner event of the first printer was created at
\* minute 1 and is no longer stored, its cooldown entry is there, and the
\* cycle of minute 2 found the toner low again, ended, and created no event.
C38_Witness ==
  LET k == <<"10.0.0.1", "low-supply", Toner>>
  IN  /\ jobs = {} /\ lastRefresh = 2 /\ config.cooldownHours = 2
      /\ k \in DOMAIN alertCooldown /\ alertCooldown[k] = 1
      /\ ~EventStored(alertHistory, k)
      /\ Has(printers, "10.0.0.1")
      /\ LET p == Get(printers, "10.0.0.1")
         IN  /\ p.lastUpdate = 2 /\ ~IsOffline(p)
             /\ \E x \in DOMAIN p.supplies :
                  p.supplies[x].name = Toner /\ Percentage(p.supplies[x]) = 15
      /\ \A m \in DOMAIN fireLog :
           fireLog[m].key = k => fireLog[m].ev = "fire" /\ fireLog[m].t = 1

\* ------------------------------------------------ pages printed in a day
\* The counter of the first printer stands at 100 whenever it is read (it
\* never decreases); either printer may fail to answer a poll.
PagesOutcomes(ip) ==
  IF ip = "10.0.0.2" THEN {Unreachable} ELSE {Unreachable, Answer(100, 25, 50)}

NextPages ==
  \/ Tick(MaxRecords - 1)
  \/ recordSnapshot
  \/ (jobs = {} /\ AutoRefresh)
  \/ \E j \in jobs : \E resp \in PagesOutcomes(j.ips[j.i]) : PollReturns(j, resp)

SpecPages == InitQuiet /\ [][NextPages]_vars

\* C39: for every device and date the end page count of the aggregate is
\* at least its start page count, and the reported pagesPrinted is not
\* negative.
C39_PagesPrintedNotNegative ==
  \A d \in DOMAIN daily : \A ip \in DOMAIN daily[d].pageCountEnd :
    /\ daily[d].pageCountEnd[ip] >= daily[d].pageCountStart[ip]
    /\ DailySummary(daily[d], ip).pagesPrinted >= 0

\* ------------------------------------------- passes over an empty registry
\* C40: a recording pass that finds the registry empty changes nothing: no
\* snapshot is appended, no daily aggregate is created or updated, and no
\* daily key is purged, however old.
C40_EmptyPassChangesNothing ==
  [][(PassStep /\ Len(printers) = 0) =>
       /\ snapshots' = snapshots
       /\ daily' = daily
       /\ recorded' = recorded
       /\ UNCHANGED <<printers, config, engineVars>>]_vars

\* C40 witness: a pass has just run over the empty registry, with a
\* snapshot stored and a daily key older than the window still there.
C40_Witness ==
  /\ Len(printers) = 0 /\ passTime = now
  /\ snapshots # <<>>
  /\ \E d \in DOMAIN daily : ~InWindow(d, now)
====
